---- MODULE Spec2Model ----
(***************************************************************************)
(* Model of the upload-and-poll workflow hook useStylizeWorkflow           *)
(* (frontend/src/hooks/useStylizeWorkflow.js) and of the storage client    *)
(* it drives.                                                              *)
(*                                                                         *)
(* JavaScript runs the code between two awaits without interruption, so    *)
(* every action below is one such stretch: a call of start() or reset(),   *)
(* or the continuation of a run after the call it was suspended on (PUT,   *)
(* HEAD, GET, the poll timer) has finished.  The setters of React state    *)
(* (status, log, resultUrl, resultContentType) queue their updates: the    *)
(* variables hold the state with every queued update applied.  React       *)
(* renders in a later stretch of its own; until then reset and start are   *)
(* the callbacks of the latest render and close over its resultUrl.  The   *)
(* cleanup of the effect on [resultUrl] runs after a render that finds     *)
(* resultUrl changed, in a stretch of its own unless the render was made   *)
(* for a handler of the page, and when the component unmounts.             *)
(***************************************************************************)
EXTENDS Integers, Sequences, FiniteSets, TLC

(***************************************************************************)
(* Bounds of the model (not program constants).                            *)
(***************************************************************************)
\* calls of start() in one behaviour
MaxStarts == 2
\* length of a prefix given to start(), when the keys are derived on their own
MaxPrefixLen == 3
\* length of a file name, when the keys are derived on their own
MaxNameLen == 2
\* 404 answers to a GET that follows a successful HEAD, per run
MaxGetMiss == 1
\* steps of any kind but renders and the cleanups they leave pending (calls of
\* start() and of reset(), the unmount, continuations of all runs together) in
\* a behaviour with more than one call of start(), a call of start() after
\* the second counted as three; with one call, the run is followed to its end
MaxMultiSteps == 8
\* the longest key that is encoded on its own
MaxKeyLen == 4
\* entries of the Metadata given to putObject
MaxMetadata == 2
\* headers given to buildCanonicalHeaders on its own
MaxHeaders == 3

(***************************************************************************)
(* Program constants.                                                      *)
(***************************************************************************)
MAX_POLLS == 24

\* the statuses in which the page counts the workflow as busy
BUSY_STATUSES == {"preparing", "uploading", "waiting", "downloading"}

(***************************************************************************)
(* Strings are sequences of characters; a value that may be undefined      *)
(* carries a flag.                                                         *)
(***************************************************************************)
Undefined == [defined |-> FALSE, chars |-> <<>>]
Str(cs) == [defined |-> TRUE, chars |-> cs]

\* JavaScript truthiness of an optional string / object
Truthy(v) == v.defined /\ v.chars # <<>>

\* the characters String.prototype.trim strips: WhiteSpace and LineTerminator.
\* Tab, line feed, form feed and carriage return are written as escapes, the
\* no-break space (U+00A0) and the byte order mark (U+FEFF) as they are, immediately
\* after the space; the characters a string here cannot hold are written by
\* their code point
WhiteSpaceChars ==
  {" ", " ", "﻿", "\t", "\n", "\f", "\r", "U+000B",
   "U+1680", "U+2000", "U+2001", "U+2002", "U+2003", "U+2004", "U+2005",
   "U+2006", "U+2007", "U+2008", "U+2009", "U+200A", "U+2028", "U+2029",
   "U+202F", "U+205F", "U+3000"}

IsWhitespace(c) == c \in WhiteSpaceChars

RECURSIVE TrimStart(_)
TrimStart(cs) ==
  IF cs # <<>> /\ IsWhitespace(Head(cs)) THEN TrimStart(Tail(cs)) ELSE cs

RECURSIVE TrimEnd(_)
TrimEnd(cs) ==
  IF cs # <<>> /\ IsWhitespace(cs[Len(cs)])
    THEN TrimEnd(SubSeq(cs, 1, Len(cs) - 1))
    ELSE cs

\* String.prototype.trim
Trim(cs) == TrimEnd(TrimStart(cs))

\* !bucket?.trim() is false
BucketGiven(b) == b.defined /\ Trim(b.chars) # <<>>

(***************************************************************************)
(* Object keys (start(), before the upload and after it).                  *)
(***************************************************************************)
DEFAULT_INPUT_PREFIX == <<"u", "p", "l", "o", "a", "d", "s", "/">>
DEFAULT_OUTPUT_PREFIX == <<"s", "t", "y", "l", "i", "z", "e", "d", "/">>

\* prefix || DEFAULT
OrDefault(prefix, default) == IF Truthy(prefix) THEN prefix.chars ELSE default

\* a strip that removes one leading slash only
StripOneLeadingSlash(cs) ==
  IF cs # <<>> /\ Head(cs) = "/" THEN Tail(cs) ELSE cs

\* .replace(/^\/+/, '')
RECURSIVE StripLeadingSlashes(_)
StripLeadingSlashes(cs) ==
  IF cs # <<>> /\ Head(cs) = "/" THEN StripLeadingSlashes(Tail(cs)) ELSE cs

\* raw === '' ? '' : raw.endsWith('/') ? raw : `${raw}/`
WithTrailingSlash(raw) ==
  IF raw = <<>> THEN <<>>
  ELSE IF raw[Len(raw)] = "/" THEN raw
  ELSE Append(raw, "/")

\* uploadPrefix and outputKeyPrefix: the prefix (or its default) trimmed,
\* without leading slashes, ending in a slash unless it is empty
NormalizePrefix(prefix, default) ==
  LET normalized == Trim(OrDefault(prefix, default))
      raw == IF normalized = <<>> THEN <<>> ELSE StripLeadingSlashes(normalized)
  IN WithTrailingSlash(raw)

\* the characters of the class [a-zA-Z0-9._-]
KeptChars ==
  {"a", "b", "c", "d", "e", "f", "g", "h", "i", "j", "k", "l", "m", "n", "o",
   "p", "q", "r", "s", "t", "u", "v", "w", "x", "y", "z",
   "A", "B", "C", "D", "E", "F", "G", "H", "I", "J", "K", "L", "M", "N", "O",
   "P", "Q", "R", "S", "T", "U", "V", "W", "X", "Y", "Z",
   "0", "1", "2", "3", "4", "5", "6", "7", "8", "9", ".", "_", "-"}

\* a base name that is the file name as it is
BaseNameUnsanitized(name) == name

\* file.name.replace(/[^a-zA-Z0-9._-]/g, '_')
BaseName(name) ==
  [i \in 1..Len(name) |-> IF name[i] \in KeptChars THEN name[i] ELSE "_"]

\* `${uploadPrefix}${uniqueId}-${baseName}`
ObjectKey(inputPrefix, uniqueId, name) ==
  NormalizePrefix(inputPrefix, DEFAULT_INPUT_PREFIX) \o uniqueId \o <<"-">> \o BaseName(name)

\* `${outputKeyPrefix}${objectKey}`
OutputKey(outputPrefix, objectKey) ==
  NormalizePrefix(outputPrefix, DEFAULT_OUTPUT_PREFIX) \o objectKey

\* uniqueId is crypto.randomUUID() where the browser has it, else
\* `${Date.now()}`.  Its values are tokens: UniqueId(n) is the n-th distinct
\* value drawn
UniqueId(n) == <<"i", "d", <<"1", "2", "3", "4", "5", "6", "7", "8", "9">>[n]>>

\* the values uniqueId can take when n distinct values have been drawn: one
\* not drawn before (crypto.randomUUID(), or Date.now() in a later
\* millisecond) or, from Date.now() in the millisecond of the draw before,
\* the value of that draw
UniqueIdChoices(n) == {n + 1} \cup {k \in {n} : k >= 1}

(***************************************************************************)
(* The log.  An entry's message is its fixed text, the number the text     *)
(* interpolates (attempt or HTTP status, 0 when none) and the string it    *)
(* interpolates (<<>> when none).  The id and the timestamp of an entry    *)
(* are not modelled.                                                       *)
(***************************************************************************)
toLogEntry(text, num, arg) == [text |-> text, num |-> num, arg |-> arg]

\* an append that puts the new entry first
appendLogInFront(l, text, num, arg) == <<toLogEntry(text, num, arg)>> \o l

\* setLog((previous) => [...previous, toLogEntry(message)])
appendLog(l, text, num, arg) == Append(l, toLogEntry(text, num, arg))

MsgChooseFile == "Please choose an image to upload."
MsgPreparing == "Preparing to upload"
MsgCredentials == "Region, access key ID, and secret access key are required."
MsgSourceBucket == "Please provide the source bucket that triggers the Lambda."
MsgDestBucket == "Please provide the destination bucket for stylized assets."
MsgUploading == "Uploading to s3://"
MsgUploadFailed == "Upload failed: "
MsgUploadComplete == "Upload complete. Waiting for stylized output..."
MsgAborted == "Workflow aborted by user."
MsgChecking == "Checking for stylized asset (attempt n/MAX_POLLS)"
MsgFound == "Stylized asset found. Downloading..."
MsgDownloaded == "Stylized image downloaded successfully."
MsgRetrieveFailed == "Failed to retrieve stylized image: "
MsgTimedOut == "Timed out waiting for stylized image."

(***************************************************************************)
(* Storage transport: makeRequest and the client built on it.              *)
(* What fetch does is the input: it resolves with a response (a status, a  *)
(* content-type header, a body that can or cannot be read) or rejects      *)
(* without one.                                                            *)
(***************************************************************************)
NoStatus == 0

Statuses == {200, 403, 404}
ContentTypes == {"", "image/png"}

FetchResponse(st, ct, readable) ==
  [kind |-> "response", status |-> st, ctype |-> ct, body |-> readable]
FetchReject == [kind |-> "reject", status |-> NoStatus, ctype |-> "", body |-> FALSE]

\* the answers to a HEAD or a PUT: the body plays no part
PlainResults ==
  {FetchResponse(st, ct, TRUE) : st \in Statuses, ct \in ContentTypes} \cup {FetchReject}
\* the answers to a GET: the body of a 2xx answer is read after the headers
GetResults ==
  PlainResults \cup {FetchResponse(200, ct, FALSE) : ct \in ContentTypes}

\* response.ok
ResponseOk(st) == st >= 200 /\ st <= 299

\* what a client call gives back: it returned (threw = FALSE) or threw an
\* error; errStatus is error.response.status, NoStatus when the error has no
\* response
Returned(ct) == [threw |-> FALSE, errStatus |-> NoStatus, ctype |-> ct]
Threw(st) == [threw |-> TRUE, errStatus |-> st, ctype |-> ""]

\* a request that does not look at response.ok
makeRequestUnchecked(res) ==
  IF res.kind = "reject" THEN Threw(NoStatus) ELSE Returned(res.ctype)

makeRequest(res) ==
  IF res.kind = "reject" THEN Threw(NoStatus)
  ELSE IF ~ResponseOk(res.status) THEN Threw(res.status)
  ELSE Returned(res.ctype)

\* a put that swallows the failure of the request
putObjectSwallowsErrors(res) == Returned("")

\* putObject awaits makeRequest and returns nothing: a failure of the
\* request is thrown on, the answer is dropped
putObject(res) ==
  LET r == makeRequest(res)
  IN IF r.threw THEN r ELSE Returned("")

headObject(res) == makeRequest(res)

\* getObject also reads the body (response.arrayBuffer()), which can reject
getObject(res) ==
  LET r == makeRequest(res)
  IN IF r.threw THEN r
     ELSE IF ~res.body THEN Threw(NoStatus)
     ELSE r

\* error?.response?.status || error?.$metadata?.httpStatusCode
StatusCodeOf(err) == err.errStatus

\* a catch that also retries a failure it cannot read a status from
IsNotReadyOrUnknown(err) == StatusCodeOf(err) = 404 \/ StatusCodeOf(err) = NoStatus

\* the catch of the poll loop treats exactly this as "not ready yet"
IsNotReady(err) == StatusCodeOf(err) = 404

\* a content type without the fallback to a generic image type
MimeTypeNoFallback(getCt, headCt) == IF getCt # "" THEN getCt ELSE headCt

\* getResult.ContentType || headResult.headers.get('content-type') || 'image/jpeg'
MimeType(getCt, headCt) ==
  IF getCt # "" THEN getCt ELSE IF headCt # "" THEN headCt ELSE "image/jpeg"

\* the loop condition off by one, either way
LoopContinuesInclusive(attempt) == attempt <= MAX_POLLS
LoopContinuesEarly(attempt) == attempt < MAX_POLLS - 1

\* while (attempt < MAX_POLLS)
LoopContinues(attempt) == attempt < MAX_POLLS

(***************************************************************************)
(* The inputs of start().                                                  *)
(***************************************************************************)
GoodInput ==
  [file |-> Str(<<"c", "#">>), region |-> Str(<<"r">>),
   accessKeyId |-> Str(<<"A", "K">>), secretAccessKey |-> Str(<<"S", "K">>),
   sessionToken |-> Undefined,
   inputBucket |-> Str(<<" ", "a">>), outputBucket |-> Str(<<"b", " ">>),
   inputPrefix |-> Str(<<"/", "i">>), outputPrefix |-> Undefined]

\* the good input as the page passes it: every field of the form is a string
PageGoodInput ==
  [GoodInput EXCEPT !.sessionToken = Str(<<>>), !.outputPrefix = Str(<<>>)]

\* the good input of the page, with these credentials and with others
CredentialInputs ==
  {PageGoodInput,
   [PageGoodInput EXCEPT !.sessionToken = Str(<<"T", "K">>)],
   [PageGoodInput EXCEPT !.accessKeyId = Str(<<"A", "L">>),
                         !.secretAccessKey = Str(<<"S", "L">>),
                         !.sessionToken = Str(<<"T", "L">>)]}

\* what handleSubmit can pass to start(): the required fields of the form are
\* not empty (white space is enough), and the file is the one chosen, or null
\* when none is
PageInputs ==
  CredentialInputs
    \cup {[PageGoodInput EXCEPT !.file = Undefined],
          [PageGoodInput EXCEPT !.inputBucket = Str(<<" ">>)],
          [PageGoodInput EXCEPT !.outputBucket = Str(<<" ">>)]}

Missing == {Undefined, Str(<<>>)}
Blank == {Undefined, Str(<<>>), Str(<<" ">>), Str(<<"\t">>), Str(<<" ", "\n">>)}

\* the good input, and the inputs with one or with every required part missing
StartInputs ==
  {GoodInput}
    \cup {[GoodInput EXCEPT !.file = Undefined]}
    \cup {[GoodInput EXCEPT !.region = m] : m \in Missing}
    \cup {[GoodInput EXCEPT !.accessKeyId = m] : m \in Missing}
    \cup {[GoodInput EXCEPT !.secretAccessKey = m] : m \in Missing}
    \cup {[GoodInput EXCEPT !.inputBucket = m] : m \in Blank}
    \cup {[GoodInput EXCEPT !.outputBucket = m] : m \in Blank}
    \cup {[file |-> Undefined, region |-> Undefined, accessKeyId |-> Undefined,
           secretAccessKey |-> Undefined, sessionToken |-> Undefined,
           inputBucket |-> Undefined, outputBucket |-> Undefined,
           inputPrefix |-> Undefined, outputPrefix |-> Undefined]}
    \cup {[GoodInput EXCEPT !.region = Undefined, !.inputBucket = Undefined]}

\* a validation that forgets the destination bucket
ValidationFailureNoDest(inp) ==
  IF ~inp.file.defined THEN MsgChooseFile
  ELSE IF ~Truthy(inp.region) \/ ~Truthy(inp.accessKeyId) \/ ~Truthy(inp.secretAccessKey)
    THEN MsgCredentials
  ELSE IF ~BucketGiven(inp.inputBucket) THEN MsgSourceBucket
  ELSE ""

\* the checks of start() in the order of the code: "" when the input passes,
\* else the message logged
ValidationFailure(inp) ==
  IF ~inp.file.defined THEN MsgChooseFile
  ELSE IF ~Truthy(inp.region) \/ ~Truthy(inp.accessKeyId) \/ ~Truthy(inp.secretAccessKey)
    THEN MsgCredentials
  ELSE IF ~BucketGiven(inp.inputBucket) THEN MsgSourceBucket
  ELSE IF ~BucketGiven(inp.outputBucket) THEN MsgDestBucket
  ELSE ""

\* throw new Error(message) in createS3Client
ClientError(message) == [threw |-> TRUE, message |-> message]

\* createS3Client: it throws when the region or a key is missing, else it
\* returns the client, which is what its methods keep of the arguments
createS3Client(inp) ==
  IF ~Truthy(inp.region)
    THEN ClientError("Region is required to create an S3 client.")
  ELSE IF ~Truthy(inp.accessKeyId) \/ ~Truthy(inp.secretAccessKey)
    THEN ClientError("Access key ID and secret access key are required.")
  ELSE [threw |-> FALSE,
        region |-> inp.region.chars, accessKeyId |-> inp.accessKeyId.chars,
        secretAccessKey |-> inp.secretAccessKey.chars,
        sessionToken |-> inp.sessionToken]

\* an upload message that names the access key
UploadTargetWithKeyId(inp, objectKey) ==
  inp.accessKeyId.chars \o <<"@">> \o Trim(inp.inputBucket.chars) \o <<"/">> \o objectKey

\* what the upload message interpolates: `${sourceBucket}/${objectKey}`
UploadTarget(inp, objectKey) ==
  Trim(inp.inputBucket.chars) \o <<"/">> \o objectKey

\* the log after the part of start(inp) that runs before its first await,
\* when it draws uniqueId
StartLog(inp, l, uniqueId) ==
  LET failure == ValidationFailure(inp)
      prepared == appendLog(l, MsgPreparing, 0, inp.file.chars)
      objectKey == ObjectKey(inp.inputPrefix, uniqueId, inp.file.chars)
  IN IF failure = MsgChooseFile THEN appendLog(l, MsgChooseFile, 0, <<>>)
     ELSE IF failure # "" THEN appendLog(prepared, failure, 0, <<>>)
     ELSE appendLog(prepared, MsgUploading, 0, UploadTarget(inp, objectKey))

\* the status after that part
StartStatus(inp, st) ==
  LET failure == ValidationFailure(inp)
  IN IF failure = MsgChooseFile THEN st
     ELSE IF failure # "" THEN "error"
     ELSE "uploading"

(***************************************************************************)
(* State.                                                                  *)
(***************************************************************************)
VARIABLES
  status,             \* useState('idle')
  log,                \* useState([])
  resultUrl,          \* useState(null): 0 is null, else the object URL
  resultContentType,  \* useState(null): "" is null
  abortRef,           \* abortRef.current: 0 is null, else the run whose controller it is
  runs,               \* the calls of start() that got past validation
  started,            \* calls of start() so far
  liveUrls,           \* object URLs created and not yet revoked
  heldAtCreate,       \* the object URLs not yet revoked at the latest URL.createObjectURL
  steps,              \* steps taken so far, counted up to MaxMultiSteps + 1
  renderedUrl,        \* resultUrl as of the latest render: reset, start and the
                      \* effect's cleanup close over it
  renderedStatus,     \* status as of the latest render of the page: its buttons
                      \* read it (kept where the page drives the hook)
  mounted,            \* the component that uses the hook is mounted
  pendingCleanup,     \* the cleanup of the effect that a render has replaced and
                      \* React has not run yet: <<>>, or <<the resultUrl it revokes>>
  idsDrawn,           \* distinct values of uniqueId drawn so far
  call,               \* a function of the module applied on its own: its arguments
  result              \* and what it returned

\* the state of the hook
hookVars == <<status, log, resultUrl, resultContentType, abortRef, runs, started,
              liveUrls, heldAtCreate, steps, renderedUrl, renderedStatus, mounted,
              pendingCleanup, idsDrawn>>

vars == <<status, log, resultUrl, resultContentType, abortRef, runs, started,
          liveUrls, heldAtCreate, steps, renderedUrl, renderedStatus, mounted,
          pendingCleanup, idsDrawn, call, result>>

\* no function is applied on its own
NoCall == [fn |-> "none"]

RunIds == 1..MaxStarts

NoUrl == 0
NoRun == 0

\* no cleanup of the effect is pending
NoCleanup == <<>>

(* A run: where it is suspended (pc), the locals client, attempt, headCtype *)
(* (of headResult), getCtype (of getResult), objectKey and outputKey,      *)
(* the parameter outputPrefix, its controller's    *)
(* signal (aborted), the resultUrl its closure captured, the client calls   *)
(* it has made that have not settled yet (inflight), and, while it is       *)
(* running, the calls it has issued and the 404 answers it has met, and     *)
(* where it was suspended when its signal was set ("" if it is not).  Once  *)
(* start() has returned nothing of the run can be observed any more, and    *)
(* its record is ReturnedRun.                                               *)
NewRun ==
  [pc |-> "none", attempt |-> 0, aborted |-> FALSE, closureUrl |-> NoUrl,
   headCtype |-> "", getCtype |-> "", heads |-> 0, gets |-> 0, misses |-> 0, getMisses |-> 0,
   abortedAt |-> "", objectKey |-> <<>>, outputKey |-> <<>>,
   outputPrefix |-> Undefined, inflight |-> {},
   client |-> [threw |-> FALSE,
               region |-> <<>>, accessKeyId |-> <<>>, secretAccessKey |-> <<>>,
               sessionToken |-> Undefined]]

ReturnedRun == [NewRun EXCEPT !.pc = "done"]

Suspended(r) == runs[r].pc \in {"put", "head", "get", "body", "wait"}

Init ==
  /\ status = "idle"
  /\ log = <<>>
  /\ resultUrl = NoUrl
  /\ resultContentType = ""
  /\ abortRef = NoRun
  /\ runs = [r \in RunIds |-> NewRun]
  /\ started = 0
  /\ liveUrls = {}
  /\ heldAtCreate = {}
  /\ steps = 0
  /\ renderedUrl = NoUrl
  /\ renderedStatus = "idle"
  /\ mounted = TRUE
  /\ pendingCleanup = NoCleanup
  /\ idsDrawn = 0
  /\ call = NoCall
  /\ result = NoCall

(***************************************************************************)
(* Bookkeeping on a run's record.                                          *)
(***************************************************************************)
\* the run calls the client's method m for the key and is suspended on it
Issue(run, m, key) ==
  [run EXCEPT !.pc = m,
              !.inflight = @ \cup {[method |-> m, key |-> key]},
              !.heads = IF m = "head" THEN @ + 1 ELSE @,
              !.gets = IF m = "get" THEN @ + 1 ELSE @]

\* a continuation that runs although the call is still in flight
SettleNothing(run) == run

\* the call the run awaits has settled (returned or thrown): the run goes on
Settle(run) ==
  [run EXCEPT !.inflight = {c \in @ : c.method # run.pc}]

\* controller.abort() on the controller abortRef.current holds, if any
AbortCurrent(rs, ref) ==
  IF ref # NoRun
    THEN [rs EXCEPT ![ref].aborted = TRUE,
                    ![ref].abortedAt = IF rs[ref].aborted THEN @ ELSE rs[ref].pc]
    ELSE rs

\* URL.revokeObjectURL(u), guarded by if (u)
Revoke(urls, u) == IF u # NoUrl THEN urls \ {u} ELSE urls

(***************************************************************************)
(* The cleanup of the effect on [resultUrl].  It is the cleanup of one     *)
(* render, so the resultUrl it revokes is that render's (old); it aborts   *)
(* what abortRef.current holds when it runs (ref).                         *)
(***************************************************************************)
CleanupRuns(rs, ref) == AbortCurrent(rs, ref)
CleanupUrls(urls, old) == Revoke(urls, old)

\* the cleanup that is pending, if any, runs
FlushRuns(rs, ref) == IF pendingCleanup # NoCleanup THEN CleanupRuns(rs, ref) ELSE rs
FlushUrls(urls) ==
  IF pendingCleanup # NoCleanup THEN CleanupUrls(urls, pendingCleanup[1]) ELSE urls

\* the render React makes before a handler of the page returns, of the state
\* in which resultUrl is url: the cleanup that is pending runs first, and the
\* cleanup of the render before runs within it when url is not its resultUrl
RenderRuns(rs, ref, url) ==
  IF url # renderedUrl THEN CleanupRuns(FlushRuns(rs, ref), ref) ELSE FlushRuns(rs, ref)
RenderUrls(urls, url) ==
  IF url # renderedUrl THEN CleanupUrls(FlushUrls(urls), renderedUrl) ELSE FlushUrls(urls)

\* a setter of React state called with new while the state is old: React
\* drops the update of a component that has unmounted
SetState(new, old) == IF mounted THEN new ELSE old

\* the bound on the steps: the step is within it, and is counted
Continue ==
  /\ started > 1 => steps < MaxMultiSteps
  /\ steps' = IF steps <= MaxMultiSteps THEN steps + 1 ELSE steps

\* what a call of start() counts for in the bound on the steps
StartCost == IF started >= 2 THEN 3 ELSE 1

(***************************************************************************)
(* React renders the hook, after an update no event of the browser caused, *)
(* with a resultUrl that is not the one of the render before: the          *)
(* callbacks reset and start are made anew over the new resultUrl, and the *)
(* cleanup of the effect of the render before is left to run later.  React *)
(* runs a cleanup that is pending before it renders again.  (A render in   *)
(* which resultUrl is the same changes nothing the hook reads.)            *)
(***************************************************************************)
Render ==
  /\ mounted
  /\ resultUrl # renderedUrl
  /\ pendingCleanup = NoCleanup
  /\ renderedUrl' = resultUrl
  /\ pendingCleanup' = <<renderedUrl>>
  /\ UNCHANGED <<status, log, resultUrl, resultContentType, abortRef, runs, started,
                 liveUrls, heldAtCreate, steps, renderedStatus, mounted, idsDrawn,
                 call, result>>

(***************************************************************************)
(* The cleanup a render has left pending runs, in a later task: it aborts  *)
(* what abortRef.current holds by now and revokes the resultUrl of the     *)
(* render it belongs to.                                                   *)
(***************************************************************************)
Cleanup ==
  /\ pendingCleanup # NoCleanup
  /\ runs' = FlushRuns(runs, abortRef)
  /\ liveUrls' = FlushUrls(liveUrls)
  /\ pendingCleanup' = NoCleanup
  /\ UNCHANGED <<status, log, resultUrl, resultContentType, abortRef, started,
                 heldAtCreate, steps, renderedUrl, renderedStatus, mounted, idsDrawn,
                 call, result>>

(***************************************************************************)
(* The component unmounts: the cleanup that is pending runs, then the      *)
(* cleanup of the effect of the latest render, and nothing else.  The runs *)
(* go on; their updates of the state are dropped from here on.             *)
(***************************************************************************)
Unmount ==
  /\ mounted
  /\ mounted' = FALSE
  /\ runs' = CleanupRuns(FlushRuns(runs, abortRef), abortRef)
  /\ liveUrls' = CleanupUrls(FlushUrls(liveUrls), renderedUrl)
  /\ pendingCleanup' = NoCleanup
  /\ Continue
  /\ UNCHANGED <<status, log, resultUrl, resultContentType, abortRef, started,
                 heldAtCreate, renderedUrl, renderedStatus, idsDrawn, call, result>>

(***************************************************************************)
(* reset(), the callback of the latest render: the resultUrl it reads is   *)
(* renderedUrl.  With flush, React renders before the call's caller        *)
(* returns, as it does in a handler of the page.  Called after the unmount *)
(* it still aborts, clears abortRef and revokes; its setters are dropped.  *)
(***************************************************************************)
ResetStep(flush) ==
  /\ status' = SetState("idle", status)
  /\ log' = SetState(<<>>, log)
  /\ abortRef' = NoRun
  /\ resultUrl' = IF renderedUrl # NoUrl THEN SetState(NoUrl, resultUrl) ELSE resultUrl
  /\ resultContentType' = SetState("", resultContentType)
  /\ LET aborted == AbortCurrent(runs, abortRef)
         revoked == Revoke(liveUrls, renderedUrl)
     IN /\ runs' = IF flush THEN RenderRuns(aborted, abortRef', resultUrl') ELSE aborted
        /\ liveUrls' = IF flush THEN RenderUrls(revoked, resultUrl') ELSE revoked
  /\ renderedUrl' = IF flush THEN resultUrl' ELSE renderedUrl
  /\ renderedStatus' = IF flush THEN status' ELSE renderedStatus
  /\ pendingCleanup' = IF flush THEN NoCleanup ELSE pendingCleanup
  /\ Continue
  /\ UNCHANGED <<started, heldAtCreate, mounted, idsDrawn, call, result>>

Reset == ResetStep(FALSE)

(***************************************************************************)
(* start(inp), the callback of the latest render, up to its first await:   *)
(* validation, then the PUT.  The resultUrl the run closes over is         *)
(* renderedUrl; the uniqueId it draws is the k-th distinct value.  The     *)
(* input has passed the validation when the client is created, so          *)
(* createS3Client does not throw here.  Called after the unmount it still  *)
(* installs its controller and uploads; its setters are dropped.           *)
(***************************************************************************)
StartCall(inp, uniqueId, k, flush) ==
  /\ started < MaxStarts
  /\ started >= 1 => steps + StartCost <= MaxMultiSteps
  /\ steps' = IF steps + StartCost <= MaxMultiSteps + 1
                THEN steps + StartCost ELSE MaxMultiSteps + 1
  /\ started' = started + 1
  /\ LET r == started + 1
         objectKey == ObjectKey(inp.inputPrefix, uniqueId, inp.file.chars)
         issued == [runs EXCEPT ![r] =
                      Issue([NewRun EXCEPT !.client = createS3Client(inp),
                                           !.closureUrl = renderedUrl,
                                           !.objectKey = objectKey,
                                           !.outputPrefix = inp.outputPrefix],
                            "put", objectKey)]
     IN /\ log' = SetState(StartLog(inp, log, uniqueId), log)
        /\ status' = SetState(StartStatus(inp, status), status)
        /\ abortRef' = IF ValidationFailure(inp) # "" THEN abortRef ELSE r
        /\ idsDrawn' = IF ValidationFailure(inp) # "" THEN idsDrawn ELSE k
        /\ LET rs == IF ValidationFailure(inp) # "" THEN runs ELSE issued
           IN runs' = IF flush THEN RenderRuns(rs, abortRef', resultUrl) ELSE rs
  /\ liveUrls' = IF flush THEN RenderUrls(liveUrls, resultUrl) ELSE liveUrls
  /\ renderedUrl' = IF flush THEN resultUrl ELSE renderedUrl
  /\ renderedStatus' = IF flush THEN status' ELSE renderedStatus
  /\ pendingCleanup' = IF flush THEN NoCleanup ELSE pendingCleanup
  /\ UNCHANGED <<resultUrl, resultContentType, heldAtCreate, mounted>>

StartStep(inp, k, flush) ==
  StartCall(inp, UniqueId(k), k, flush) /\ UNCHANGED <<call, result>>

Start(inp) == \E k \in UniqueIdChoices(idsDrawn) : StartStep(inp, k, FALSE)

\* a loop that never looks at the abort signal
LoopTopNoAbortCheck(run, l, st) ==
  IF ~LoopContinues(run.attempt)
    THEN [run |-> ReturnedRun,
          log |-> appendLog(l, MsgTimedOut, 0, <<>>),
          status |-> "error", clearRef |-> TRUE]
  ELSE [run |-> Issue([run EXCEPT !.attempt = @ + 1], "head", run.outputKey),
        log |-> appendLog(l, MsgChecking, run.attempt + 1, <<>>),
        status |-> st, clearRef |-> FALSE]

\* a loop that does not count its attempts
LoopTopNoCount(run, l, st) ==
  IF ~LoopContinues(run.attempt)
    THEN [run |-> ReturnedRun,
          log |-> appendLog(l, MsgTimedOut, 0, <<>>),
          status |-> "error", clearRef |-> TRUE]
  ELSE IF run.aborted
    THEN [run |-> ReturnedRun,
          log |-> appendLog(l, MsgAborted, 0, <<>>),
          status |-> "idle", clearRef |-> TRUE]
  ELSE [run |-> Issue(run, "head", run.outputKey),
        log |-> appendLog(l, MsgChecking, run.attempt + 1, <<>>),
        status |-> st, clearRef |-> FALSE]

(***************************************************************************)
(* The top of the poll loop, run after the upload and after every wait:    *)
(* the loop condition, the check of the abort signal, the next HEAD.       *)
(* st is the status on entry.  The log and the status it gives are what    *)
(* the setters are called with.                                            *)
(***************************************************************************)
LoopTop(run, l, st) ==
  IF ~LoopContinues(run.attempt)
    THEN [run |-> ReturnedRun,
          log |-> appendLog(l, MsgTimedOut, 0, <<>>),
          status |-> "error", clearRef |-> TRUE]
  ELSE IF run.aborted
    THEN [run |-> ReturnedRun,
          log |-> appendLog(l, MsgAborted, 0, <<>>),
          status |-> "idle", clearRef |-> TRUE]
  ELSE [run |-> Issue([run EXCEPT !.attempt = @ + 1], "head", run.outputKey),
        log |-> appendLog(l, MsgChecking, run.attempt + 1, <<>>),
        status |-> st, clearRef |-> FALSE]

\* a failure branch that logs nothing
RetrieveFailedSilently(r, err) ==
  /\ status' = SetState("error", status)
  /\ log' = log
  /\ abortRef' = NoRun
  /\ runs' = [runs EXCEPT ![r] = ReturnedRun]
  /\ UNCHANGED <<resultUrl, resultContentType, liveUrls, heldAtCreate>>

\* the failure branch of the catch of the poll loop
RetrieveFailed(r, err) ==
  /\ status' = SetState("error", status)
  /\ log' = SetState(appendLog(log, MsgRetrieveFailed, StatusCodeOf(err), <<>>), log)
  /\ abortRef' = NoRun
  /\ runs' = [runs EXCEPT ![r] = ReturnedRun]
  /\ UNCHANGED <<resultUrl, resultContentType, liveUrls, heldAtCreate>>

(***************************************************************************)
(* The continuation after await client.putObject(...).                     *)
(***************************************************************************)
PutAnswered(r, res) ==
  /\ runs[r].pc = "put"
  /\ Continue
  /\ LET out == putObject(res)
     IN IF out.threw
          THEN /\ status' = SetState("error", status)
               /\ log' = SetState(appendLog(log, MsgUploadFailed, StatusCodeOf(out), <<>>),
                                  log)
               /\ abortRef' = NoRun
               /\ runs' = [runs EXCEPT ![r] = ReturnedRun]
          ELSE LET run == Settle(runs[r])
                   outputKey == OutputKey(run.outputPrefix, run.objectKey)
                   top == LoopTop([run EXCEPT !.outputKey = outputKey],
                                  appendLog(log, MsgUploadComplete, 0, <<>>),
                                  "waiting")
               IN /\ status' = SetState(top.status, status)
                  /\ log' = SetState(top.log, log)
                  /\ abortRef' = IF top.clearRef THEN NoRun ELSE abortRef
                  /\ runs' = [runs EXCEPT ![r] = top.run]
  /\ UNCHANGED <<resultUrl, resultContentType, liveUrls, heldAtCreate, started,
                 renderedUrl, renderedStatus, mounted, pendingCleanup, idsDrawn>>

PutDone(r, res) == PutAnswered(r, res) /\ UNCHANGED <<call, result>>

(***************************************************************************)
(* The continuation after await client.headObject(...).                    *)
(***************************************************************************)
HeadDone(r, res) ==
  /\ runs[r].pc = "head"
  /\ Continue
  /\ LET out == headObject(res)
     IN IF ~out.threw
          THEN /\ log' = SetState(appendLog(log, MsgFound, 0, <<>>), log)
               /\ status' = SetState("downloading", status)
               /\ runs' = [runs EXCEPT ![r] =
                    Issue([Settle(@) EXCEPT !.headCtype = out.ctype], "get",
                          runs[r].outputKey)]
               /\ UNCHANGED <<abortRef, resultUrl, resultContentType, liveUrls,
                              heldAtCreate>>
        ELSE IF IsNotReady(out)
          THEN /\ runs' = [runs EXCEPT ![r] =
                    [Settle(@) EXCEPT !.pc = "wait", !.misses = @ + 1]]
               /\ UNCHANGED <<status, log, abortRef, resultUrl, resultContentType,
                              liveUrls, heldAtCreate>>
        ELSE RetrieveFailed(r, out)
  /\ UNCHANGED <<started, renderedUrl, renderedStatus, mounted, pendingCleanup,
                 idsDrawn, call, result>>

(***************************************************************************)
(* The continuation after await client.getObject(...): it calls            *)
(* transformToByteArray() on the body and awaits what that returns, or the *)
(* catch runs.                                                             *)
(***************************************************************************)
GetDone(r, res) ==
  /\ runs[r].pc = "get"
  /\ Continue
  /\ LET out == getObject(res)
     IN IF ~out.threw
          THEN /\ runs' = [runs EXCEPT ![r] =
                    [Settle(@) EXCEPT !.pc = "body", !.getCtype = out.ctype]]
               /\ UNCHANGED <<status, log, abortRef, resultUrl, resultContentType,
                              liveUrls, heldAtCreate>>
        ELSE IF IsNotReady(out)
          THEN /\ runs[r].getMisses < MaxGetMiss
               /\ runs' = [runs EXCEPT ![r] =
                    [Settle(@) EXCEPT !.pc = "wait", !.getMisses = @ + 1]]
               /\ UNCHANGED <<status, log, abortRef, resultUrl, resultContentType,
                              liveUrls, heldAtCreate>>
        ELSE RetrieveFailed(r, out)
  /\ UNCHANGED <<started, renderedUrl, renderedStatus, mounted, pendingCleanup,
                 idsDrawn, call, result>>

(***************************************************************************)
(* The continuation after await getResult.Body?.transformToByteArray():    *)
(* the bytes are there (the client read them before getObject returned),   *)
(* and the result is materialized.  The URL revoked before the new one is  *)
(* created is the one the run closed over when it started.  The promise    *)
(* awaited is settled when it is made: the continuation needs no event of  *)
(* the browser, and is not counted among the steps.                        *)
(***************************************************************************)
BodyDone(r) ==
  /\ runs[r].pc = "body"
  /\ LET newUrl == r
     IN /\ resultUrl' = SetState(newUrl, resultUrl)
        /\ resultContentType' =
             SetState(MimeType(runs[r].getCtype, runs[r].headCtype), resultContentType)
        /\ log' = SetState(appendLog(log, MsgDownloaded, 0, <<>>), log)
        /\ status' = SetState("complete", status)
        /\ abortRef' = NoRun
        /\ heldAtCreate' = Revoke(liveUrls, runs[r].closureUrl)
        /\ liveUrls' = heldAtCreate' \cup {newUrl}
        /\ runs' = [runs EXCEPT ![r] = ReturnedRun]
  /\ UNCHANGED <<started, steps, renderedUrl, renderedStatus, mounted, pendingCleanup,
                 idsDrawn, call, result>>

(***************************************************************************)
(* The continuation after the wait of POLL_INTERVAL_MS.                    *)
(***************************************************************************)
TimerFired(r) ==
  /\ runs[r].pc = "wait"
  /\ Continue
  /\ LET top == LoopTop(runs[r], log, status)
     IN /\ status' = SetState(top.status, status)
        /\ log' = SetState(top.log, log)
        /\ abortRef' = IF top.clearRef THEN NoRun ELSE abortRef
        /\ runs' = [runs EXCEPT ![r] = top.run]
  /\ UNCHANGED <<resultUrl, resultContentType, liveUrls, heldAtCreate, started,
                 renderedUrl, renderedStatus, mounted, pendingCleanup,
                 idsDrawn, call, result>>

Next ==
  \/ \E inp \in StartInputs : Start(inp)
  \/ Reset
  \/ Render
  \/ Cleanup
  \/ Unmount
  \/ \E r \in RunIds, res \in PlainResults : PutDone(r, res)
  \/ \E r \in RunIds, res \in PlainResults : HeadDone(r, res)
  \/ \E r \in RunIds, res \in GetResults : GetDone(r, res)
  \/ \E r \in RunIds : BodyDone(r)
  \/ \E r \in RunIds : TimerFired(r)

Spec == Init /\ [][Next]_vars

(***************************************************************************)
(* The hook as the page drives it: the submit button is disabled while the *)
(* status the page shows is busy, the reset button while it is busy and    *)
(* not error.  A handler of the page runs inside an event of the browser,  *)
(* while the page is mounted, and React renders, cleanups included, before *)
(* the event is over; after a                                              *)
(* continuation of a run it renders in a later task and leaves the cleanup *)
(* of the effect to a task after that.                                     *)
(***************************************************************************)
\* handleSubmit, behind disabled={busy}
PageStart(inp) ==
  /\ mounted
  /\ renderedStatus \notin BUSY_STATUSES
  /\ \E k \in UniqueIdChoices(idsDrawn) : StartStep(inp, k, TRUE)

\* handleReset, behind disabled={busy && status !== 'error'}
PageReset ==
  /\ mounted
  /\ ~(renderedStatus \in BUSY_STATUSES /\ renderedStatus # "error")
  /\ ResetStep(TRUE)

\* React renders the page after a continuation has changed what it shows
PageRender ==
  /\ mounted
  /\ resultUrl # renderedUrl \/ status # renderedStatus
  /\ pendingCleanup = NoCleanup
  /\ renderedUrl' = resultUrl
  /\ renderedStatus' = status
  /\ pendingCleanup' = IF resultUrl # renderedUrl THEN <<renderedUrl>> ELSE NoCleanup
  /\ UNCHANGED <<status, log, resultUrl, resultContentType, abortRef, runs, started,
                 liveUrls, heldAtCreate, steps, mounted, idsDrawn, call, result>>

PageNext ==
  \/ \E inp \in PageInputs : PageStart(inp)
  \/ PageReset
  \/ PageRender
  \/ Cleanup
  \/ Unmount
  \/ \E r \in RunIds, res \in PlainResults : PutDone(r, res)
  \/ \E r \in RunIds, res \in PlainResults : HeadDone(r, res)
  \/ \E r \in RunIds, res \in GetResults : GetDone(r, res)
  \/ \E r \in RunIds : BodyDone(r)
  \/ \E r \in RunIds : TimerFired(r)

PageSpec == Init /\ [][PageNext]_vars

(***************************************************************************)
(* One call of start(), followed to its end, with reset() at any time.     *)
(* Every call the run awaits is answered and every timer it awaits fires:  *)
(* a continuation that can run does run.  The answers declare no content  *)
(* type: where a run ends does not depend on it.                           *)
(***************************************************************************)
\* the answers among rs that declare no content type
UntypedResults(rs) == {res \in rs : res.ctype = ""}

RunNext ==
  \/ \E inp \in StartInputs : started = 0 /\ Start(inp)
  \/ Reset
  \/ Render
  \/ Cleanup
  \/ Unmount
  \/ \E r \in RunIds, res \in UntypedResults(PlainResults) : PutDone(r, res)
  \/ \E r \in RunIds, res \in UntypedResults(PlainResults) : HeadDone(r, res)
  \/ \E r \in RunIds, res \in UntypedResults(GetResults) : GetDone(r, res)
  \/ \E r \in RunIds : BodyDone(r)
  \/ \E r \in RunIds : TimerFired(r)

RunFairness ==
  \A r \in RunIds :
    /\ WF_vars(\E res \in UntypedResults(PlainResults) : PutDone(r, res))
    /\ WF_vars(\E res \in UntypedResults(PlainResults) : HeadDone(r, res))
    /\ WF_vars(\E res \in UntypedResults(GetResults) : GetDone(r, res))
    /\ WF_vars(BodyDone(r))
    /\ WF_vars(TimerFired(r))

RunSpec == Init /\ [][RunNext]_vars /\ RunFairness

(***************************************************************************)
(* The derivation of the keys on its own: start() is given a file name, an *)
(* input prefix and an output prefix, draws a unique id, and derives the   *)
(* key it uploads to; when the upload has been answered it derives the key *)
(* it probes and downloads, unless the upload failed.  The two steps are   *)
(* the steps of the hook, StartCall and PutAnswered; result holds the keys *)
(* of the calls they have issued.                                          *)
(***************************************************************************)
\* the sequences over a set of characters, up to a length
SeqsUpTo(chars, n) == UNION {[1..k -> chars] : k \in 0..n}

\* the end-to-end scenario of the specification
ScenarioName == <<"c", "a", "t", ".", "p", "n", "g">>
ScenarioUniqueId == <<"a", "b", "c", "1", "2", "3">>

KeyPrefixes ==
  {Undefined} \cup {Str(cs) : cs \in SeqsUpTo({"/", " ", "p"}, MaxPrefixLen)}
    \cup {Str(DEFAULT_INPUT_PREFIX), Str(DEFAULT_OUTPUT_PREFIX)}
    \cup {Str(<<"\t", "/", "p">>), Str(<<"p", "\n">>), Str(<<" ">>)}
KeyNames == SeqsUpTo({"c", "#"}, MaxNameLen) \cup {ScenarioName}
KeyUniqueIds == {ScenarioUniqueId}

KeyInit ==
  /\ status = "idle"
  /\ log = <<>>
  /\ resultUrl = NoUrl
  /\ resultContentType = ""
  /\ abortRef = NoRun
  /\ runs = [r \in RunIds |-> NewRun]
  /\ started = 0
  /\ liveUrls = {}
  /\ heldAtCreate = {}
  /\ steps = 0
  /\ renderedUrl = NoUrl
  /\ renderedStatus = "idle"
  /\ mounted = TRUE
  /\ pendingCleanup = NoCleanup
  /\ idsDrawn = 0
  /\ call \in [fn : {"keys"}, name : KeyNames, uniqueId : KeyUniqueIds,
                inputPrefix : KeyPrefixes, outputPrefix : KeyPrefixes]
  /\ result = NoCall

\* the input of the call: the good input with the file and the prefixes given
KeyInput(c) ==
  [GoodInput EXCEPT !.file = Str(c.name), !.inputPrefix = c.inputPrefix,
                    !.outputPrefix = c.outputPrefix]

\* start() up to the await of the upload: objectKey is derived, and is the key
\* of the PUT
DeriveObjectKey ==
  /\ call.fn = "keys"
  /\ result = NoCall
  /\ StartCall(KeyInput(call), call.uniqueId, 1, FALSE)
  /\ result' = [fn |-> "keys", stage |-> "uploading",
                objectKey |-> runs'[1].objectKey, outputKey |-> Undefined]
  /\ UNCHANGED call

\* fetch answers the upload with res: start() returns when putObject throws,
\* else it derives outputKey, the key of the HEAD it issues
DeriveOutputKey(res) ==
  /\ result.fn = "keys"
  /\ result.stage = "uploading"
  /\ PutAnswered(1, res)
  /\ result' = IF runs'[1].pc = "head"
                 THEN [result EXCEPT !.stage = "uploaded",
                                     !.outputKey = Str(runs'[1].outputKey)]
                 ELSE [result EXCEPT !.stage = "failed"]
  /\ UNCHANGED call

\* the answers to the upload: it is accepted, or it is refused
UploadAnswers == {FetchResponse(200, "", TRUE), FetchResponse(403, "", TRUE)}

KeyNext ==
  \/ DeriveObjectKey
  \/ \E res \in UploadAnswers : DeriveOutputKey(res)

KeySpec == KeyInit /\ [][KeyNext]_vars

(***************************************************************************)
(* The client on its own: one of its methods is called and fetch gives one *)
(* of the answers it can give.                                             *)
(***************************************************************************)
\* the statuses of the answers
WireStatuses == {200, 204, 206, 299, 300, 304, 400, 403, 404, 500, 503}

WireResults ==
  {FetchResponse(st, ct, readable) :
     st \in WireStatuses, ct \in ContentTypes, readable \in BOOLEAN} \cup {FetchReject}

RequestInit ==
  /\ status = "idle"
  /\ log = <<>>
  /\ resultUrl = NoUrl
  /\ resultContentType = ""
  /\ abortRef = NoRun
  /\ runs = [r \in RunIds |-> NewRun]
  /\ started = 0
  /\ liveUrls = {}
  /\ heldAtCreate = {}
  /\ steps = 0
  /\ renderedUrl = NoUrl
  /\ renderedStatus = "idle"
  /\ mounted = TRUE
  /\ pendingCleanup = NoCleanup
  /\ idsDrawn = 0
  /\ call \in [fn : {"request"}, method : {"put", "head", "get"}, res : WireResults]
  /\ result = NoCall

Request ==
  /\ call.fn = "request"
  /\ result = NoCall
  /\ result' = [fn |-> "request",
                out |-> CASE call.method = "put" -> putObject(call.res)
                          [] call.method = "head" -> headObject(call.res)
                          [] call.method = "get" -> getObject(call.res)]
  /\ UNCHANGED <<call, hookVars>>

RequestSpec == RequestInit /\ [][Request]_vars

(***************************************************************************)
(* Characters.  A string is the sequence of its characters; the ones used  *)
(* here are printable ASCII, one code unit (and one UTF-8 octet) each.     *)
(***************************************************************************)
\* the printable ASCII characters in the order of their code units, from 32
\* (the quotation mark, the backslash and the backtick are written by name)
Ascii ==
  <<" ", "!", "quote", "#", "$", "%", "&", "'", "(", ")", "*", "+", ",", "-", ".", "/",
    "0", "1", "2", "3", "4", "5", "6", "7", "8", "9", ":", ";", "<", "=", ">", "?",
    "@", "A", "B", "C", "D", "E", "F", "G", "H", "I", "J", "K", "L", "M", "N", "O",
    "P", "Q", "R", "S", "T", "U", "V", "W", "X", "Y", "Z", "[", "backslash", "]", "^", "_",
    "backtick", "a", "b", "c", "d", "e", "f", "g", "h", "i", "j", "k", "l", "m", "n", "o",
    "p", "q", "r", "s", "t", "u", "v", "w", "x", "y", "z", "{", "|", "}", "~">>

\* String.prototype.charCodeAt
CodeUnit(c) == 31 + (CHOOSE i \in 1..Len(Ascii) : Ascii[i] = c)

UpperCase == {Ascii[i] : i \in 34..59}
Digits == {Ascii[i] : i \in 17..26}
LowerCase == {Ascii[i] : i \in 66..91}

\* String.prototype.toLowerCase, a character at a time
LowerChar(c) == IF c \in UpperCase THEN Ascii[CodeUnit(c) + 1] ELSE c
toLowerCase(cs) == [i \in 1..Len(cs) |-> LowerChar(cs[i])]

\* the concatenation of a sequence of strings with sep between them:
\* Array.prototype.join
RECURSIVE Join(_, _)
Join(parts, sep) ==
  IF parts = <<>> THEN <<>>
  ELSE IF Len(parts) = 1 THEN parts[1]
  ELSE parts[1] \o sep \o Join(Tail(parts), sep)

\* String.prototype.split on a one-character separator: "" splits into [""]
RECURSIVE Split(_, _)
Split(cs, sep) ==
  IF \A i \in 1..Len(cs) : cs[i] # sep THEN <<cs>>
  ELSE LET at == CHOOSE i \in 1..Len(cs) :
                   cs[i] = sep /\ \A j \in 1..(i - 1) : cs[j] # sep
       IN <<SubSeq(cs, 1, at - 1)>> \o Split(SubSeq(cs, at + 1, Len(cs)), sep)

\* String.prototype.replace with a global pattern that is a literal: the
\* matches are found from left to right and do not overlap
RECURSIVE ReplaceAll(_, _, _)
ReplaceAll(cs, pat, rep) ==
  IF Len(cs) < Len(pat) THEN cs
  ELSE IF SubSeq(cs, 1, Len(pat)) = pat
    THEN rep \o ReplaceAll(SubSeq(cs, Len(pat) + 1, Len(cs)), pat, rep)
  ELSE <<cs[1]>> \o ReplaceAll(Tail(cs), pat, rep)

(***************************************************************************)
(* The encoding of a key in the path of a request.                         *)
(***************************************************************************)
HexDigits == <<"0", "1", "2", "3", "4", "5", "6", "7", "8", "9",
               "A", "B", "C", "D", "E", "F">>

\* the escape of an octet: a percent sign and two upper-case hex digits
PercentEscape(c) ==
  <<"%", HexDigits[(CodeUnit(c) \div 16) + 1], HexDigits[(CodeUnit(c) % 16) + 1]>>

\* the characters encodeURIComponent leaves as they are
UriUnreserved ==
  UpperCase \cup LowerCase \cup Digits \cup {"-", "_", ".", "!", "~", "*", "'", "(", ")"}

RECURSIVE encodeURIComponent(_)
encodeURIComponent(cs) ==
  IF cs = <<>> THEN <<>>
  ELSE (IF cs[1] \in UriUnreserved THEN <<cs[1]>> ELSE PercentEscape(cs[1]))
         \o encodeURIComponent(Tail(cs))

\* an encoding of the key as one component: the separators are escaped too
encodeS3KeyWhole(key) == encodeURIComponent(key)

encodeS3Key(key) ==
  ReplaceAll(Join([i \in 1..Len(Split(key, "/")) |->
                     encodeURIComponent(Split(key, "/")[i])], <<"/">>),
             <<"%", "2", "F">>, <<"/">>)

(***************************************************************************)
(* The request signer.                                                     *)
(*                                                                         *)
(* An object is the sequence of its entries in the order of insertion of   *)
(* their names (no name used here is an array index).                      *)
(***************************************************************************)
Entry(name, value) == [name |-> name, value |-> value]

HasKey(obj, name) == \E i \in 1..Len(obj) : obj[i].name = name

\* obj[name] = value: an existing name keeps its place
SetKey(obj, name, value) ==
  IF HasKey(obj, name)
    THEN [i \in 1..Len(obj) |->
            IF obj[i].name = name THEN Entry(name, value) ELSE obj[i]]
    ELSE Append(obj, Entry(name, value))

\* { ...obj, ...more }
RECURSIVE Spread(_, _)
Spread(obj, more) ==
  IF more = <<>> THEN obj
  ELSE Spread(SetKey(obj, more[1].name, more[1].value), Tail(more))

\* Object.keys
Keys(obj) == [i \in 1..Len(obj) |-> obj[i].name]

(***************************************************************************)
(* The hash and the keyed hash, taken as injective: a digest is the term   *)
(* that names what was hashed, written between two marks that are no       *)
(* characters.                                                             *)
(***************************************************************************)
sha256Hex(data) == <<"sha256(">> \o data \o <<")">>

\* the digest of the empty input, as a literal in the source
EMPTY_PAYLOAD_SHA256 == sha256Hex(<<>>)

hmacKey(key, data) == <<"hmac(">> \o key \o <<")(">> \o data \o <<")">>

toHex(buffer) == <<"hex(">> \o buffer \o <<")">>

deriveSigningKey(secretAccessKey, dateStamp, region, service) ==
  LET kSecret == <<"A", "W", "S", "4">> \o secretAccessKey
      kDate == hmacKey(kSecret, dateStamp)
      kRegion == hmacKey(kDate, region)
      kService == hmacKey(kRegion, service)
  IN hmacKey(kService, <<"a", "w", "s", "4", "_", "r", "e", "q", "u", "e", "s", "t">>)

(***************************************************************************)
(* The clock.  A Date is its time value, the milliseconds since the epoch, *)
(* held as the day since the epoch and the millisecond of that day.        *)
(***************************************************************************)
\* getUTCFullYear, getUTCMonth() + 1 and getUTCDate of a day since the epoch
CivilFromDays(day) ==
  LET z == day + 719468
      era == z \div 146097
      doe == z - era * 146097
      yoe == (doe - doe \div 1460 + doe \div 36524 - doe \div 146096) \div 365
      doy == doe - (365 * yoe + yoe \div 4 - yoe \div 100)
      mp == (5 * doy + 2) \div 153
      m == IF mp < 10 THEN mp + 3 ELSE mp - 9
  IN [year |-> yoe + era * 400 + (IF m <= 2 THEN 1 ELSE 0),
      month |-> m,
      date |-> doy - (153 * mp + 2) \div 5 + 1]

\* Number.prototype.toString of a natural number
RECURSIVE DecimalDigits(_)
DecimalDigits(n) ==
  IF n < 10 THEN <<HexDigits[n + 1]>>
  ELSE DecimalDigits(n \div 10) \o <<HexDigits[(n % 10) + 1]>>

\* String.prototype.padStart
RECURSIVE padStart(_, _, _)
padStart(cs, size, fill) ==
  IF Len(cs) >= size THEN cs ELSE padStart(<<fill>> \o cs, size, fill)

\* the pad of formatAmzDate, with its default size
pad(value) == padStart(DecimalDigits(value), 2, "0")

\* a date written without padding
formatAmzDateUnpadded(date) ==
  LET civil == CivilFromDays(date.day)
      second == date.ms \div 1000
      ymd == DecimalDigits(civil.year) \o DecimalDigits(civil.month)
               \o DecimalDigits(civil.date)
  IN [amzDate |-> ymd \o <<"T">> \o DecimalDigits(second \div 3600)
                    \o DecimalDigits((second \div 60) % 60)
                    \o DecimalDigits(second % 60) \o <<"Z">>,
      dateStamp |-> ymd]

formatAmzDate(date) ==
  LET civil == CivilFromDays(date.day)
      second == date.ms \div 1000
      ymd == DecimalDigits(civil.year) \o pad(civil.month) \o pad(civil.date)
  IN [amzDate |-> ymd \o <<"T">> \o pad(second \div 3600)
                    \o pad((second \div 60) % 60) \o pad(second % 60) \o <<"Z">>,
      dateStamp |-> ymd]

(***************************************************************************)
(* The two orders of the header names.                                     *)
(***************************************************************************)
\* the locales of the runtime: localeCompare is called without one and takes
\* the default of the browser
Locales == {"en-US", "th-TH", "et-EE"}

\* the characters the collation of the locale passes over: the Thai collation
\* ignores punctuation
Ignored(locale) == IF locale = "th-TH" THEN {"_", "-"} ELSE {}

\* the characters of the lower-cased header names that the collation of the
\* locale does not pass over, in its order: punctuation, then digits, then
\* letters; the Estonian collation has z after s
Collation(locale) ==
  IF locale = "th-TH"
    THEN <<"0", "1", "2", "3", "4", "5", "6", "7", "8", "9",
           "a", "b", "c", "d", "e", "f", "g", "h", "i", "j", "k", "l", "m",
           "n", "o", "p", "q", "r", "s", "t", "u", "v", "w", "x", "y", "z">>
  ELSE IF locale = "et-EE"
    THEN <<"_", "-", "0", "1", "2", "3", "4", "5", "6", "7", "8", "9",
           "a", "b", "c", "d", "e", "f", "g", "h", "i", "j", "k", "l", "m",
           "n", "o", "p", "q", "r", "s", "z", "t", "u", "v", "w", "x", "y">>
  ELSE <<"_", "-", "0", "1", "2", "3", "4", "5", "6", "7", "8", "9",
         "a", "b", "c", "d", "e", "f", "g", "h", "i", "j", "k", "l", "m",
         "n", "o", "p", "q", "r", "s", "t", "u", "v", "w", "x", "y", "z">>

CollationRank(c, locale) ==
  CHOOSE i \in 1..Len(Collation(locale)) : Collation(locale)[i] = c

\* a.localeCompare(b) in a runtime of the locale: negative, zero or positive.
\* It is zero for two names that differ only in characters the collation
\* passes over
RECURSIVE localeCompare(_, _, _)
localeCompare(a, b, locale) ==
  IF a # <<>> /\ a[1] \in Ignored(locale) THEN localeCompare(Tail(a), b, locale)
  ELSE IF b # <<>> /\ b[1] \in Ignored(locale) THEN localeCompare(a, Tail(b), locale)
  ELSE IF a = <<>> /\ b = <<>> THEN 0
  ELSE IF a = <<>> THEN -1
  ELSE IF b = <<>> THEN 1
  ELSE IF CollationRank(a[1], locale) < CollationRank(b[1], locale) THEN -1
  ELSE IF CollationRank(a[1], locale) > CollationRank(b[1], locale) THEN 1
  ELSE localeCompare(Tail(a), Tail(b), locale)

\* the comparison of Array.prototype.sort without a comparator: by code units
RECURSIVE CodeUnitCompare(_, _)
CodeUnitCompare(a, b) ==
  IF a = <<>> /\ b = <<>> THEN 0
  ELSE IF a = <<>> THEN -1
  ELSE IF b = <<>> THEN 1
  ELSE IF CodeUnit(a[1]) < CodeUnit(b[1]) THEN -1
  ELSE IF CodeUnit(a[1]) > CodeUnit(b[1]) THEN 1
  ELSE CodeUnitCompare(Tail(a), Tail(b))

\* entries.sort(([a], [b]) => a.localeCompare(b)): the sort is stable, so
\* entries whose names compare equal stay in the order they were supplied in
RECURSIVE SortByLocale(_, _)
SortByLocale(entries, locale) ==
  IF entries = <<>> THEN <<>>
  ELSE LET sorted == SortByLocale(SubSeq(entries, 1, Len(entries) - 1), locale)
           x == entries[Len(entries)]
           k == Cardinality({i \in 1..Len(sorted) :
                               localeCompare(sorted[i].name, x.name, locale) <= 0})
       IN SubSeq(sorted, 1, k) \o <<x>> \o SubSeq(sorted, k + 1, Len(sorted))

\* names.sort()
RECURSIVE SortByCodeUnit(_)
SortByCodeUnit(names) ==
  IF names = <<>> THEN <<>>
  ELSE LET sorted == SortByCodeUnit(SubSeq(names, 1, Len(names) - 1))
           x == names[Len(names)]
           k == Cardinality({i \in 1..Len(sorted) :
                               CodeUnitCompare(sorted[i], x) <= 0})
       IN SubSeq(sorted, 1, k) \o <<x>> \o SubSeq(sorted, k + 1, Len(sorted))

NewLine == <<"\n">>

\* the lines of the canonical header block, before they are joined
CanonicalLines(entries) ==
  [i \in 1..Len(entries) |-> entries[i].name \o <<":">> \o Trim(entries[i].value)]

\* buildCanonicalHeaders(headers) in a runtime of the locale; headers holds
\* the entries in the order Object.entries gives them
buildCanonicalHeaders(headers, locale) ==
  Join(CanonicalLines(SortByLocale([i \in 1..Len(headers) |->
         Entry(toLowerCase(headers[i].name), headers[i].value)], locale)), NewLine)

buildSignedHeaders(headers) ==
  Join(SortByCodeUnit([i \in 1..Len(headers) |-> toLowerCase(Keys(headers)[i])]),
       <<";">>)

\* String.prototype.toUpperCase
UpperChar(c) == IF c \in LowerCase THEN Ascii[CodeUnit(c) - 63] ELSE c
toUpperCase(cs) == [i \in 1..Len(cs) |-> UpperChar(cs[i])]

(***************************************************************************)
(* signRequest(config) when the clock reads now, in a runtime of the       *)
(* locale.  body is null (not                                              *)
(* defined) or the bytes makeRequest read from the Body, which are truthy  *)
(* even when there are none.  With the signed request come the two locals  *)
(* the signature was computed from.                                        *)
(***************************************************************************)
signRequest(config, now, locale) ==
  LET service == <<"s", "3">>
      host == config.bucket \o <<".", "s", "3", ".">> \o config.region \o <<".", "a", "m", "a", "z", "o", "n", "a", "w", "s", ".", "c", "o", "m">>
      amzDate == formatAmzDate(now).amzDate
      dateStamp == formatAmzDate(now).dateStamp
      payloadHash ==
        IF config.body.defined THEN sha256Hex(config.body.chars)
        ELSE EMPTY_PAYLOAD_SHA256
      withGiven ==
        Spread(<<Entry(<<"h", "o", "s", "t">>, host),
                 Entry(<<"x", "-", "a", "m", "z", "-", "c", "o", "n", "t", "e", "n", "t", "-", "s", "h", "a", "2", "5", "6">>, payloadHash),
                 Entry(<<"x", "-", "a", "m", "z", "-", "d", "a", "t", "e">>, amzDate)>>, config.headers)
      mergedHeaders ==
        IF Truthy(config.sessionToken)
          THEN SetKey(withGiven, <<"x", "-", "a", "m", "z", "-", "s", "e", "c", "u", "r", "i", "t", "y", "-", "t", "o", "k", "e", "n">>, config.sessionToken.chars)
          ELSE withGiven
      canonicalHeaders == buildCanonicalHeaders(mergedHeaders, locale)
      signedHeaders == buildSignedHeaders(mergedHeaders)
      canonicalRequest ==
        Join(<<toUpperCase(config.method),
               <<"/">> \o encodeS3Key(config.key),
               <<>>,
               canonicalHeaders \o NewLine,
               signedHeaders,
               payloadHash>>, NewLine)
      credentialScope ==
        dateStamp \o <<"/">> \o config.region \o <<"/">> \o service
          \o <<"/", "a", "w", "s", "4", "_", "r", "e", "q", "u", "e", "s", "t">>
      stringToSign ==
        <<"A", "W", "S", "4", "-", "H", "M", "A", "C", "-", "S", "H", "A", "2", "5", "6">> \o NewLine \o amzDate \o NewLine \o credentialScope
          \o NewLine \o sha256Hex(canonicalRequest)
      signingKey ==
        deriveSigningKey(config.secretAccessKey, dateStamp, config.region, service)
      signature == toHex(hmacKey(signingKey, stringToSign))
      authorization ==
        <<"A", "W", "S", "4", "-", "H", "M", "A", "C", "-", "S", "H", "A", "2", "5", "6", " ", "C", "r", "e", "d", "e", "n", "t", "i", "a", "l", "=">> \o config.accessKeyId \o <<"/">>
          \o credentialScope \o <<",", " ", "S", "i", "g", "n", "e", "d", "H", "e", "a", "d", "e", "r", "s", "=">> \o signedHeaders
          \o <<",", " ", "S", "i", "g", "n", "a", "t", "u", "r", "e", "=">> \o signature
  IN [url |-> <<"h", "t", "t", "p", "s", ":", "/", "/">> \o host \o <<"/">> \o encodeS3Key(config.key),
      headers |-> SetKey(mergedHeaders, <<"A", "u", "t", "h", "o", "r", "i", "z", "a", "t", "i", "o", "n">>, authorization),
      body |-> config.body,
      canonicalHeaders |-> canonicalHeaders,
      signedHeaders |-> signedHeaders]

\* signed.headers.Authorization
AuthorizationOf(signed) ==
  signed.headers[CHOOSE i \in 1..Len(signed.headers) :
       signed.headers[i].name =
         <<"A", "u", "t", "h", "o", "r", "i", "z", "a", "t", "i", "o", "n">>].value

(***************************************************************************)
(* What the methods of the client hand to makeRequest, and so to           *)
(* signRequest.  args holds Bucket, Key and, for putObject, Body,          *)
(* ContentType and Metadata (an object, or not defined).                   *)
(***************************************************************************)
\* the headers putObject builds
RECURSIVE MetadataHeaders(_, _)
MetadataHeaders(headers, Metadata) ==
  IF Metadata = <<>> THEN headers
  ELSE MetadataHeaders(
         SetKey(headers, <<"x", "-", "a", "m", "z", "-", "m", "e", "t", "a", "-">> \o toLowerCase(Metadata[1].name),
                Metadata[1].value),
         Tail(Metadata))

putObjectHeaders(args) ==
  LET withType ==
        IF Truthy(args.ContentType)
          THEN SetKey(<<>>, <<"C", "o", "n", "t", "e", "n", "t", "-", "T", "y", "p", "e">>, args.ContentType.chars)
          ELSE <<>>
  IN IF args.Metadata.defined
       THEN MetadataHeaders(withType, args.Metadata.entries)
       ELSE withType

RequestConfig(client, op, args) ==
  [method |-> CASE op = "put" -> <<"P", "U", "T">> [] op = "head" -> <<"H", "E", "A", "D">>
                [] op = "get" -> <<"G", "E", "T">>,
   bucket |-> args.Bucket,
   region |-> client.region,
   key |-> args.Key,
   headers |-> IF op = "put" THEN putObjectHeaders(args) ELSE <<>>,
   body |-> IF op = "put" THEN args.Body ELSE Undefined,
   accessKeyId |-> client.accessKeyId,
   secretAccessKey |-> client.secretAccessKey,
   sessionToken |-> client.sessionToken]

\* the hook is not used: its state is the one after construction
HookUnused ==
  /\ status = "idle"
  /\ log = <<>>
  /\ resultUrl = NoUrl
  /\ resultContentType = ""
  /\ abortRef = NoRun
  /\ runs = [r \in RunIds |-> NewRun]
  /\ started = 0
  /\ liveUrls = {}
  /\ heldAtCreate = {}
  /\ steps = 0
  /\ renderedUrl = NoUrl
  /\ renderedStatus = "idle"
  /\ mounted = TRUE
  /\ pendingCleanup = NoCleanup
  /\ idsDrawn = 0

(***************************************************************************)
(* encodeS3Key on its own, applied to a key.                               *)
(***************************************************************************)
\* the key of the example of the specification: 'a b/c#d'
ExampleKey == <<"a", " ", "b", "/", "c", "#", "d">>

EncodeKeys == SeqsUpTo({"/", "%", "2", "F", " ", "a"}, MaxKeyLen) \cup {ExampleKey}

EncodeInit ==
  /\ HookUnused
  /\ call \in [fn : {"encode"}, key : EncodeKeys]
  /\ result = NoCall

Encode ==
  /\ call.fn = "encode"
  /\ result = NoCall
  /\ result' = [fn |-> "encode", encoded |-> encodeS3Key(call.key)]
  /\ UNCHANGED <<call, hookVars>>

EncodeSpec == EncodeInit /\ [][Encode]_vars

(***************************************************************************)
(* The signer on its own: a method of a client is called, and the request  *)
(* it makes is signed when the clock reads now and again when it reads     *)
(* later.                                                                  *)
(***************************************************************************)
\* the clients with and without a session token
SignClients ==
  {createS3Client(GoodInput),
   createS3Client([GoodInput EXCEPT !.sessionToken = Str(<<"T", "K">>)])}

\* the entries a Metadata can hold: two names that the two orders of the
\* header names order differently, and one that lower-cases to another
MetadataEntries ==
  {Entry(<<"a", "_">>, <<" ", "v">>), Entry(<<"a", "1">>, <<"w", " ">>),
   Entry(<<"A", "1">>, <<"u">>)}

\* the sequences without repetition of up to n elements of a set
SeqsWithoutRepetition(S, n) ==
  {s \in UNION {[1..k -> S] : k \in 0..n} :
     \A i, j \in 1..Len(s) : i # j => s[i] # s[j]}

Metadatas ==
  {[defined |-> FALSE, entries |-> <<>>]}
    \cup {[defined |-> TRUE, entries |-> es] :
            es \in SeqsWithoutRepetition(MetadataEntries, MaxMetadata)}

SignKeys == {<<"p", "/", "a", " ">>}

SignArgs ==
  [Bucket : {<<"b">>}, Key : SignKeys, Body : {Str(<<>>), Str(<<"B">>)},
   ContentType : {Undefined, Str(<<"i", "m", "a", "g", "e", "/", "p", "n", "g">>)}, Metadata : Metadatas]

\* what putObject does not take is left out of the arguments of the others
PlainArgs ==
  {a \in SignArgs : a.Body = Str(<<>>) /\ a.ContentType = Undefined
                      /\ ~a.Metadata.defined}

\* 2024-01-11 and 2024-11-01, as days since the epoch
SignDays == {19733, 20028}
\* the first and the last millisecond of a second, the next second, the last
\* millisecond of the day
SignMillis == {0, 999, 1000, 86399999}
\* the clock readings: every one of these milliseconds on the first day, the
\* first and the last millisecond on the second
Instants ==
  {i \in [day : SignDays, ms : SignMillis] :
     i.day = 19733 \/ i.ms \in {0, 86399999}}

SignInit ==
  /\ HookUnused
  /\ call \in {c \in [fn : {"sign"}, client : SignClients,
                      op : {"put", "head", "get"}, args : SignArgs,
                      now : Instants, later : Instants, locale : Locales] :
                 /\ c.op # "put" => c.args \in PlainArgs
                 \* the clock reads later no earlier than it reads now
                 /\ \/ c.later.day > c.now.day
                    \/ c.later.day = c.now.day /\ c.later.ms >= c.now.ms}
  /\ result = NoCall

Sign ==
  /\ call.fn = "sign"
  /\ result = NoCall
  /\ LET config == RequestConfig(call.client, call.op, call.args)
     IN result' = [fn |-> "sign",
                   first |-> signRequest(config, call.now, call.locale),
                   second |-> signRequest(config, call.later, call.locale)]
  /\ UNCHANGED <<call, hookVars>>

SignSpec == SignInit /\ [][Sign]_vars

(***************************************************************************)
(* buildCanonicalHeaders on its own, in a runtime of one locale or another, *)
(* applied to a header mapping and to the same mapping with its entries    *)
(* supplied in another order.                                              *)
(***************************************************************************)
\* the headers of the request with the most headers (what signRequest
\* merges for a putObject with a content type, a Metadata and a token), a
\* metadata name that differs from another in punctuation only, a name that
\* differs from another in case only, and two metadata names that differ in
\* letters the locales order differently
HeaderPool ==
  {Entry(<<"h", "o", "s", "t">>, <<"b", ".", "s", "3", ".", "r", ".", "a", "m", "a", "z", "o", "n", "a", "w", "s", ".", "c", "o", "m">>),
   Entry(<<"x", "-", "a", "m", "z", "-", "c", "o", "n", "t", "e", "n", "t", "-", "s", "h", "a", "2", "5", "6">>, sha256Hex(<<"B">>)),
   Entry(<<"x", "-", "a", "m", "z", "-", "d", "a", "t", "e">>, <<"2", "0", "2", "4", "0", "1", "1", "1", "T", "0", "0", "0", "0", "0", "0", "Z">>),
   Entry(<<"C", "o", "n", "t", "e", "n", "t", "-", "T", "y", "p", "e">>, <<"i", "m", "a", "g", "e", "/", "p", "n", "g">>),
   Entry(<<"x", "-", "a", "m", "z", "-", "m", "e", "t", "a", "-", "a", "_">>, <<" ", "v">>),
   Entry(<<"x", "-", "a", "m", "z", "-", "m", "e", "t", "a", "-", "a", "1">>, <<"w", " ">>),
   Entry(<<"x", "-", "a", "m", "z", "-", "m", "e", "t", "a", "-", "a", "-">>, <<"t">>),
   Entry(<<"x", "-", "a", "m", "z", "-", "m", "e", "t", "a", "-", "t">>, <<"s">>),
   Entry(<<"x", "-", "a", "m", "z", "-", "m", "e", "t", "a", "-", "z">>, <<"r">>),
   Entry(<<"c", "o", "n", "t", "e", "n", "t", "-", "t", "y", "p", "e">>, <<"i", "m", "a", "g", "e", "/", "g", "i", "f">>),
   Entry(<<"x", "-", "a", "m", "z", "-", "s", "e", "c", "u", "r", "i", "t", "y", "-", "t", "o", "k", "e", "n">>, <<"T", "K">>)}

\* the orders in which the entries of headers can be supplied
Reorderings(headers) ==
  {[i \in 1..Len(headers) |-> headers[p[i]]] :
     p \in {q \in [1..Len(headers) -> 1..Len(headers)] :
              \A i, j \in 1..Len(headers) : i # j => q[i] # q[j]}}

HeaderInit ==
  /\ HookUnused
  /\ \E headers \in SeqsWithoutRepetition(HeaderPool, MaxHeaders) :
       \E permuted \in Reorderings(headers) :
         \E locale \in Locales :
           call = [fn |-> "canon", headers |-> headers, permuted |-> permuted,
                   locale |-> locale]
  /\ result = NoCall

Canonicalize ==
  /\ call.fn = "canon"
  /\ result = NoCall
  /\ result' = [fn |-> "canon",
                block |-> buildCanonicalHeaders(call.headers, call.locale),
                permutedBlock |-> buildCanonicalHeaders(call.permuted, call.locale)]
  /\ UNCHANGED <<call, hookVars>>

HeaderSpec == HeaderInit /\ [][Canonicalize]_vars

(***************************************************************************)
(* Vocabulary of the properties.                                           *)
(***************************************************************************)
Last(l) == l[Len(l)]

\* the step is a continuation of run r, in a component that is mounted
Continued(r) == mounted /\ Suspended(r) /\ runs'[r].pc # runs[r].pc

\* the step appends exactly the entry e to the log
Appends(e) == log' = Append(log, e)

IsCheckingEntry(e, k) == e = toLogEntry(MsgChecking, k, <<>>)

\* a fetch result that is a failure other than a 404: a response outside
\* 200-299 that is not a 404, or no response at all
OtherFailure(res) ==
  \/ res.kind = "reject"
  \/ res.kind = "response" /\ ~(200 <= res.status /\ res.status <= 299) /\ res.status # 404

\* a fetch result that is a 2xx response (with a readable body)
Success(res) ==
  res.kind = "response" /\ 200 <= res.status /\ res.status <= 299 /\ res.body

\* a required input of start() is missing
NoValue(v) == ~v.defined \/ v.chars = <<>>
NoBucket(v) == ~v.defined \/ \A i \in 1..Len(v.chars) : v.chars[i] \in WhiteSpaceChars
InputMissing(inp) ==
  \/ ~inp.file.defined
  \/ NoValue(inp.region) \/ NoValue(inp.accessKeyId) \/ NoValue(inp.secretAccessKey)
  \/ NoBucket(inp.inputBucket) \/ NoBucket(inp.outputBucket)

(***************************************************************************)
(* C1.  A run issues at most MAX_POLLS HEAD probes; and when all MAX_POLLS *)
(* probes of a run were answered 404 and its signal is not set, the        *)
(* continuation after the last wait sets the status to error, appends the  *)
(* entry 'Timed out waiting for stylized image.' and returns without       *)
(* another probe.                                                          *)
(***************************************************************************)
C1_AtMostMaxPolls ==
  [][\A r \in RunIds :
       /\ runs'[r].heads <= MAX_POLLS
       /\ (Continued(r) /\ runs[r].pc = "wait" /\ runs[r].misses = MAX_POLLS
             /\ ~runs[r].aborted)
            => /\ status' = "error"
               /\ Appends(toLogEntry(MsgTimedOut, 0, <<>>))
               /\ runs'[r].pc = "done"]_vars

\* a run has timed out after MAX_POLLS probes, none of which found the asset
C1_TimedOutAfterAllProbes ==
  /\ status = "error"
  /\ Len(log) = MAX_POLLS + 4
  /\ IsCheckingEntry(log[MAX_POLLS + 3], MAX_POLLS)
  /\ Last(log).text = MsgTimedOut
  /\ \A i \in 1..Len(log) : log[i].text # MsgFound

(***************************************************************************)
(* C2.  While its signal is not set, a run is never stopped short of a     *)
(* success: after a successful upload it issues probe 1, after the wait    *)
(* that follows probe k < MAX_POLLS it issues probe k + 1, a successful    *)
(* HEAD (the k-th, for every k in 1..MAX_POLLS) sets the status to         *)
(* downloading and issues the GET, and a successful GET, once its body is  *)
(* taken, sets the status to complete with a result handle that is held    *)
(* and not released.                                                       *)
(***************************************************************************)
C2_SuccessAtAnyProbe ==
  [][\A r \in RunIds : (Continued(r) /\ ~runs[r].aborted) =>
       /\ \A res \in PlainResults :
            (PutDone(r, res) /\ Success(res) /\ ~runs[r].aborted)
              => runs'[r].pc = "head" /\ runs'[r].attempt = 1
       /\ (TimerFired(r) /\ ~runs[r].aborted /\ runs[r].attempt < MAX_POLLS)
            => /\ runs'[r].pc = "head"
               /\ runs'[r].attempt = runs[r].attempt + 1
       /\ \A res \in PlainResults :
            (HeadDone(r, res) /\ Success(res) /\ ~runs[r].aborted
               /\ runs[r].attempt \in 1..MAX_POLLS)
              => status' = "downloading" /\ runs'[r].pc = "get"
       /\ \A res \in GetResults :
            (GetDone(r, res) /\ Success(res) /\ ~runs[r].aborted)
              => runs'[r].pc = "body"
       /\ (BodyDone(r) /\ ~runs[r].aborted)
            => /\ status' = "complete"
               /\ resultUrl' # NoUrl
               /\ resultUrl' \in liveUrls'
               /\ runs'[r].pc = "done"]_vars

\* a run has completed on its last probe, after MAX_POLLS - 1 answers of 404
C2_CompleteOnLastProbe ==
  /\ status = "complete"
  /\ resultUrl # NoUrl
  /\ Len(log) = MAX_POLLS + 5
  /\ IsCheckingEntry(log[MAX_POLLS + 3], MAX_POLLS)
  /\ log[MAX_POLLS + 4].text = MsgFound
  /\ Last(log).text = MsgDownloaded
  /\ \A i \in 1..(MAX_POLLS + 3) : log[i].text # MsgFound

(***************************************************************************)
(* C3.  When a HEAD probe fails with anything but a 404 (another status    *)
(* outside 200-299, or no response at all), the continuation sets the      *)
(* status to error, appends the entry 'Failed to retrieve stylized image:  *)
(* ...' and returns: the run issues no further HEAD and no GET, and a run  *)
(* that has returned never continues.                                      *)
(***************************************************************************)
C3_ProbeFailureIsTerminal ==
  [][\A r \in RunIds :
       /\ (Continued(r) /\ runs[r].pc = "head") =>
            \A res \in PlainResults :
              (HeadDone(r, res) /\ OtherFailure(res))
                => /\ status' = "error"
                   /\ Appends(toLogEntry(MsgRetrieveFailed, res.status, <<>>))
                   /\ runs'[r] = ReturnedRun
       /\ runs[r].pc = "done" => runs'[r] = runs[r]]_vars

\* the third probe of a run has failed without a status, and the run has ended
C3_ThirdProbeFailed ==
  /\ status = "error"
  /\ Len(log) >= 2
  /\ Last(log) = toLogEntry(MsgRetrieveFailed, NoStatus, <<>>)
  /\ IsCheckingEntry(log[Len(log) - 1], 3)
  /\ \A r \in RunIds : ~Suspended(r)

(***************************************************************************)
(* C4.  For every k in 1..MAX_POLLS - 1: when the signal of a run is set   *)
(* while the run waits between probe k and probe k + 1, the continuation   *)
(* after the wait sets the status to idle, appends only the entry          *)
(* 'Workflow aborted by user.' (no 'Checking for stylized asset' entry)    *)
(* and returns without issuing probe k + 1.                                *)
(***************************************************************************)
C4_CancelBetweenProbes ==
  [][\A r \in RunIds :
       (Continued(r) /\ runs[r].pc = "wait" /\ runs[r].aborted
          /\ runs[r].attempt \in 1..(MAX_POLLS - 1))
         => /\ status' = "idle"
            /\ Appends(toLogEntry(MsgAborted, 0, <<>>))
            /\ runs'[r] = ReturnedRun]_vars

\* reset() has set the signal of a run during the wait after its probe
\* MAX_POLLS - 1, every probe so far answered 404
C4_CancelledDuringWait ==
  \E r \in RunIds :
    /\ runs[r].pc = "wait"
    /\ runs[r].aborted
    /\ runs[r].abortedAt = "wait"
    /\ runs[r].attempt = MAX_POLLS - 1
    /\ runs[r].misses = MAX_POLLS - 1
    /\ status = "idle"

(***************************************************************************)
(* C5.  Once the signal of a run is set, no continuation of that run       *)
(* changes the status to anything but idle.                                *)
(***************************************************************************)
C5_NoTransitionAfterAbort ==
  [][\A r \in RunIds :
       (Continued(r) /\ runs[r].aborted) => status' \in {status, "idle"}]_vars

(***************************************************************************)
(* C6.  Once the signal of a run is set, no continuation of that run       *)
(* issues a HEAD probe or a GET.                                           *)
(***************************************************************************)
C6_NoCallAfterAbort ==
  [][\A r \in RunIds :
       (Continued(r) /\ runs[r].aborted) => runs'[r].pc \notin {"head", "get"}]_vars

(***************************************************************************)
(* C7.  A call of start() that gets past validation while the status is    *)
(* busy and an earlier run is suspended sets the signal of that run, so    *)
(* that at most one run whose signal is not set is ever suspended.         *)
(***************************************************************************)
C7_StartCancelsEarlierRun ==
  [][\A inp \in StartInputs :
       (started' # started /\ Start(inp) /\ ~InputMissing(inp) /\ status \in BUSY_STATUSES)
         => \A q \in RunIds : Suspended(q) => runs'[q].aborted]_vars

(***************************************************************************)
(* C8.  Right after reset() of the mounted hook, whatever the state it is  *)
(* called in: the status is idle, the log is empty, resultUrl is null and the object URL  *)
(* it held is revoked, resultContentType is null, and the signal of the    *)
(* run whose controller abortRef held is set.                              *)
(***************************************************************************)
C8_ResetPostState ==
  [][(mounted /\ Reset) =>
       /\ status' = "idle"
       /\ log' = <<>>
       /\ resultUrl' = NoUrl
       /\ resultUrl \notin liveUrls'
       /\ resultContentType' = ""
       /\ abortRef # NoRun => runs'[abortRef].aborted]_vars

(***************************************************************************)
(* C9.  A call of start() with a required input missing sets the status to *)
(* error, appends at least one log entry and starts no run.                *)
(***************************************************************************)
C9_MissingInputIsError ==
  [][\A inp \in StartInputs :
       (started' # started /\ Start(inp) /\ InputMissing(inp))
         => /\ status' = "error"
            /\ Len(log') > Len(log)
            /\ runs' = runs]_vars

(***************************************************************************)
(* C10.  A call of start() with a required input missing starts no run, so *)
(* that no PUT, HEAD or GET is issued for it, and leaves abortRef as it    *)
(* was: no controller is installed.                                        *)
(***************************************************************************)
C10_NoCallOnInvalidInput ==
  [][\A inp \in StartInputs :
       (started' # started /\ Start(inp) /\ InputMissing(inp))
         => runs' = runs /\ abortRef' = abortRef]_vars

\* start() has just refused a blank destination bucket: no run, no controller
C10_AfterRefusedStart ==
  /\ started = 1
  /\ status = "error"
  /\ Len(log) = 2
  /\ Last(log).text = MsgDestBucket
  /\ abortRef = NoRun
  /\ \A r \in RunIds : runs[r] = NewRun

(***************************************************************************)
(* C11.  When the upload fails (the PUT is answered with a status outside  *)
(* 200-299, or gets no response), the continuation sets the status to      *)
(* error, appends the entry 'Upload failed: ...', sets abortRef to null    *)
(* and returns: the run has no call in flight and never continues, so it   *)
(* issues no HEAD and no GET; resultUrl, resultContentType and the object  *)
(* URLs held stay as they were.                                            *)
(***************************************************************************)
C11_UploadFailureStopsRun ==
  [][\A r \in RunIds :
       /\ (Continued(r) /\ runs[r].pc = "put") =>
            \A res \in PlainResults :
              (PutDone(r, res) /\ ~Success(res))
                => /\ status' = "error"
                   /\ Appends(toLogEntry(MsgUploadFailed, res.status, <<>>))
                   /\ abortRef' = NoRun
                   /\ runs'[r].pc = "done"
                   /\ runs'[r].inflight = {}
                   /\ runs'[r].heads = 0 /\ runs'[r].gets = 0
                   /\ resultUrl' = resultUrl
                   /\ resultContentType' = resultContentType
                   /\ liveUrls' = liveUrls
       /\ runs[r].pc = "done" => runs'[r].pc = "done"]_vars

\* the upload of a second run has failed while the result of the first is held
C11_UploadFailedWithResultHeld ==
  /\ started = 2
  /\ status = "error"
  /\ Last(log) = toLogEntry(MsgUploadFailed, 403, <<>>)
  /\ abortRef = NoRun
  /\ resultUrl # NoUrl
  /\ resultUrl \in liveUrls
  /\ resultContentType # ""
  /\ \A r \in RunIds : runs[r].pc = "done"

(***************************************************************************)
(* C12.  The log is append-only: every step keeps the entries of the log   *)
(* as they are and in their order and at most adds entries after them,     *)
(* unless the step is reset(), which leaves the log empty.                 *)
(***************************************************************************)
C12_LogAppendOnly ==
  [][\/ /\ Len(log') >= Len(log)
        /\ SubSeq(log', 1, Len(log)) = log
     \/ Reset /\ log' = <<>>]_vars

\* a second run has started after the first completed and no reset() came
\* between: the log holds the entries of the first run, then those of the second
C12_SecondRunAppended ==
  /\ started = 2
  /\ Len(log) = 8
  /\ log[6].text = MsgDownloaded
  /\ log[7].text = MsgPreparing
  /\ log[8].text = MsgUploading
  /\ log[8].arg # log[2].arg

\* the step keeps the log and adds at least one entry
AppendsEntries ==
  /\ Len(log') > Len(log)
  /\ SubSeq(log', 1, Len(log)) = log

\* the texts of the entries that describe the transition to a status
Describing(st) ==
  CASE st = "uploading" -> {MsgUploading}
    [] st = "waiting" -> {MsgUploadComplete}
    [] st = "downloading" -> {MsgFound}
    [] st = "complete" -> {MsgDownloaded}
    [] st = "error" -> {MsgCredentials, MsgSourceBucket, MsgDestBucket,
                        MsgUploadFailed, MsgRetrieveFailed, MsgTimedOut}
    [] st = "idle" -> {MsgAborted}
    [] OTHER -> {}

(***************************************************************************)
(* C13, as stated.  Every step that changes the status, the step of        *)
(* reset() included, adds at least one entry to the log.                   *)
(***************************************************************************)
C13_EveryTransitionLogged ==
  [][status' # status => AppendsEntries]_vars

(***************************************************************************)
(* C13, amended.  Every step of start() or of a run that changes the       *)
(* status adds entries to the log, one of which describes the transition   *)
(* to the new status; a step of reset() that changes the status adds       *)
(* nothing and leaves the log empty.                                       *)
(***************************************************************************)
C13_TransitionLoggedUnlessReset ==
  [][status' # status =>
       IF Reset
         THEN log' = <<>>
         ELSE /\ AppendsEntries
              /\ \E i \in (Len(log) + 1)..Len(log') :
                   log'[i].text \in Describing(status')]_vars

\* a run has gone through uploading, waiting and downloading to complete on
\* its first probe, and every one of these transitions has left its entry
C13_CompleteRunLogged ==
  /\ status = "complete"
  /\ Len(log) = 6
  /\ [i \in 1..6 |-> log[i].text] =
       <<MsgPreparing, MsgUploading, MsgUploadComplete, MsgChecking, MsgFound,
         MsgDownloaded>>

(***************************************************************************)
(* C14.  No object URL is created while an earlier one is not yet revoked, *)
(* and never are two object URLs unrevoked.                                *)
(***************************************************************************)
C14_ReleasedBeforeNextCreated ==
  heldAtCreate = {} /\ Cardinality(liveUrls) <= 1

(***************************************************************************)
(* C15.  While the status of the mounted hook is preparing, uploading or   *)
(* waiting, no object URL is held: resultUrl is null and every object URL  *)
(* created is revoked.                                                     *)
(***************************************************************************)
C15_NoResultHeldDuringLaterRun ==
  (mounted /\ status \in {"preparing", "uploading", "waiting"})
    => resultUrl = NoUrl /\ liveUrls = {}

(***************************************************************************)
(* C18.  The calls of one run are sequential: a run never has more than    *)
(* one call in flight; a step that issues a HEAD probe is the continuation *)
(* of the run after its upload or after the wait that followed its         *)
(* previous probe, which has settled, and the probe issued is the next     *)
(* attempt; a step that issues a GET is the continuation of the run after  *)
(* its HEAD, and the GET is the only call in flight afterwards.            *)
(***************************************************************************)
C18_CallsSequential ==
  [][\A r \in RunIds :
       /\ Cardinality(runs'[r].inflight) <= 1
       /\ runs'[r].heads > runs[r].heads
            => /\ runs[r].pc \in {"put", "wait"}
               /\ runs'[r].attempt = runs[r].attempt + 1
               /\ runs'[r].heads = runs'[r].attempt
               /\ runs'[r].inflight = {[method |-> "head", key |-> runs'[r].outputKey]}
       /\ runs'[r].gets > runs[r].gets
            => /\ runs[r].pc = "head"
               /\ runs[r].inflight = {[method |-> "head", key |-> runs[r].outputKey]}
               /\ runs'[r].inflight = {[method |-> "get", key |-> runs[r].outputKey]}]_vars

\* a run is suspended on the GET that follows its second probe, and that GET is
\* its only call in flight
C18_GetAfterSecondProbe ==
  \E r \in RunIds :
    /\ runs[r].pc = "get"
    /\ runs[r].attempt = 2
    /\ runs[r].heads = 2
    /\ runs[r].gets = 1
    /\ runs[r].inflight = {[method |-> "get", key |-> runs[r].outputKey]}

(***************************************************************************)
(* Keys, as the claims describe them.                                      *)
(***************************************************************************)
\* the file name with every character outside [A-Za-z0-9._-] replaced by '_'
Sanitized(name) ==
  LET lower == {"a", "b", "c", "d", "e", "f", "g", "h", "i", "j", "k", "l", "m",
                "n", "o", "p", "q", "r", "s", "t", "u", "v", "w", "x", "y", "z"}
      upper == {"A", "B", "C", "D", "E", "F", "G", "H", "I", "J", "K", "L", "M",
                "N", "O", "P", "Q", "R", "S", "T", "U", "V", "W", "X", "Y", "Z"}
      digit == {"0", "1", "2", "3", "4", "5", "6", "7", "8", "9"}
      other == {".", "_", "-"}
  IN [i \in DOMAIN name |->
        IF name[i] \in lower \cup upper \cup digit \cup other THEN name[i] ELSE "_"]

\* the prefix the caller supplied, or the default when there is none
AsSupplied(prefix, default) ==
  IF prefix.defined /\ prefix.chars # <<>> THEN prefix.chars ELSE default

\* the prefix in normal form: from the first character that is neither
\* leading whitespace nor a slash that follows it, to the last character that
\* is not trailing whitespace, and a '/' after it unless it is empty or ends in one
InNormalForm(p) ==
  LET n == Len(p)
      first == CHOOSE a \in 1..(n + 1) :
                 /\ \A i \in 1..(a - 1) : p[i] \in WhiteSpaceChars
                 /\ a <= n => p[a] \notin WhiteSpaceChars
      last == CHOOSE b \in 0..n :
                /\ \A i \in (b + 1)..n : p[i] \in WhiteSpaceChars
                /\ b >= 1 => p[b] \notin WhiteSpaceChars
      from == CHOOSE c \in first..(n + 1) :
                /\ \A i \in first..(c - 1) : i <= last /\ p[i] = "/"
                /\ (c <= last) => p[c] # "/"
      core == IF from > last THEN <<>> ELSE SubSeq(p, from, last)
  IN IF core = <<>> \/ core[Len(core)] = "/" THEN core ELSE core \o <<"/">>

(***************************************************************************)
(* C16, as stated.  The key uploaded to is the input prefix, the unique    *)
(* id, '-' and the sanitized file name, one after the other, and the key   *)
(* probed and downloaded is the output prefix followed by that key.        *)
(***************************************************************************)
C16_KeysAreConcatenations ==
  result.fn = "keys" =>
    LET uploaded == AsSupplied(call.inputPrefix, DEFAULT_INPUT_PREFIX)
                      \o call.uniqueId \o <<"-">> \o Sanitized(call.name)
    IN /\ result.objectKey = uploaded
       /\ result.outputKey.defined
            => result.outputKey.chars =
                 AsSupplied(call.outputPrefix, DEFAULT_OUTPUT_PREFIX) \o uploaded

(***************************************************************************)
(* C16, amended.  The key uploaded to is the input prefix in normal form,  *)
(* the unique id, '-' and the sanitized file name, one after the other,    *)
(* and the key probed and downloaded is the output prefix in normal form   *)
(* followed by that key; for cat.png, uploads/, stylized/ and abc123 the   *)
(* keys are uploads/abc123-cat.png and stylized/uploads/abc123-cat.png.    *)
(* The second key exists once the upload has succeeded.                    *)
(***************************************************************************)
C16_KeysFromNormalizedPrefixes ==
  result.fn = "keys" =>
    LET uploaded == InNormalForm(AsSupplied(call.inputPrefix, DEFAULT_INPUT_PREFIX))
                      \o call.uniqueId \o <<"-">> \o Sanitized(call.name)
    IN /\ result.objectKey = uploaded
       /\ result.outputKey.defined
            => result.outputKey.chars =
                 InNormalForm(AsSupplied(call.outputPrefix, DEFAULT_OUTPUT_PREFIX))
                   \o uploaded
       /\ (/\ call.name = ScenarioName
           /\ call.uniqueId = ScenarioUniqueId
           /\ call.inputPrefix = Str(DEFAULT_INPUT_PREFIX)
           /\ call.outputPrefix = Str(DEFAULT_OUTPUT_PREFIX)
           /\ result.stage = "uploaded")
            => /\ result.objectKey =
                    <<"u", "p", "l", "o", "a", "d", "s", "/", "a", "b", "c", "1", "2",
                      "3", "-", "c", "a", "t", ".", "p", "n", "g">>
               /\ result.outputKey.chars =
                    <<"s", "t", "y", "l", "i", "z", "e", "d", "/", "u", "p", "l", "o",
                      "a", "d", "s", "/", "a", "b", "c", "1", "2", "3", "-", "c", "a",
                      "t", ".", "p", "n", "g">>

\* the keys of a file name with a character to replace, under an input prefix
\* with whitespace and a leading slash and no output prefix, after the upload
C16_KeysOfUnnormalizedPrefix ==
  /\ call.fn = "keys"
  /\ call.name = <<"c", "#">>
  /\ call.uniqueId = ScenarioUniqueId
  /\ call.inputPrefix = Str(<<" ", "/", "p">>)
  /\ call.outputPrefix = Undefined
  /\ result.fn = "keys"
  /\ result.stage = "uploaded"
  /\ result.objectKey = <<"p", "/", "a", "b", "c", "1", "2", "3", "-", "c", "_">>
  /\ result.outputKey.chars =
       DEFAULT_OUTPUT_PREFIX \o <<"p", "/", "a", "b", "c", "1", "2", "3", "-", "c", "_">>

(***************************************************************************)
(* C17.  Whatever the input prefix and the output prefix (none, empty,     *)
(* whitespace only, starting with one or more '/'), neither the key        *)
(* uploaded to nor the key probed and downloaded (which exists once the    *)
(* upload has succeeded) begins with '/'.                                  *)
(***************************************************************************)
C17_KeysNeverStartWithSlash ==
  result.fn = "keys" =>
    /\ result.objectKey # <<>> /\ result.objectKey[1] # "/"
    /\ result.outputKey.defined
         => result.outputKey.chars # <<>> /\ result.outputKey.chars[1] # "/"

\* the keys derived from an input prefix that starts with two slashes and an
\* output prefix that is whitespace and a slash, after the upload
C17_KeysOfSlashPrefixes ==
  /\ call.fn = "keys"
  /\ call.inputPrefix = Str(<<"/", "/", "p">>)
  /\ call.outputPrefix = Str(<<" ", "/", " ">>)
  /\ result.fn = "keys"
  /\ result.stage = "uploaded"
  /\ result.objectKey[1] = "p"
  /\ result.outputKey.chars = result.objectKey

(***************************************************************************)
(* C19, as stated.  When fetch answers a put, a head or a get with a       *)
(* response whose status is outside 200-299, the method fails with an      *)
(* error that carries that status; when the status is within 200-299 the   *)
(* method returns; and a 404 reaches the workflow as a failure that its    *)
(* catch reads as status 404.                                              *)
(***************************************************************************)
C19_StatusDecidesOutcome ==
  (result.fn = "request" /\ call.res.kind = "response") =>
    LET st == call.res.status
        out == result.out
    IN /\ (st < 200 \/ st > 299) => (out.threw /\ out.errStatus = st)
       /\ (200 <= st /\ st <= 299) => ~out.threw
       /\ st = 404 => (out.threw /\ StatusCodeOf(out) = 404 /\ IsNotReady(out))

(***************************************************************************)
(* C19, amended.  When fetch answers a put, a head or a get with a         *)
(* response whose status is outside 200-299, the method fails with an      *)
(* error that carries that status; when the status is within 200-299 a put *)
(* and a head return, and a get returns if the body of the response can be *)
(* read and fails, with an error that carries no status, if it cannot; and *)
(* a 404 reaches the workflow as a failure that its catch reads as status  *)
(* 404.                                                                    *)
(***************************************************************************)
C19_NonSuccessResponseFails ==
  (result.fn = "request" /\ call.res.kind = "response") =>
    LET st == call.res.status
        out == result.out
    IN /\ (st < 200 \/ st > 299) => (out.threw /\ out.errStatus = st)
       /\ (200 <= st /\ st <= 299 /\ (call.method = "get" => call.res.body))
            => ~out.threw
       /\ (200 <= st /\ st <= 299 /\ call.method = "get" /\ ~call.res.body)
            => (out.threw /\ out.errStatus = NoStatus)
       /\ st = 404 => (out.threw /\ StatusCodeOf(out) = 404 /\ IsNotReady(out))

\* a get was answered 404 and has failed with an error that carries the 404
C19_GetAnswered404 ==
  /\ call.fn = "request"
  /\ call.method = "get"
  /\ call.res.kind = "response"
  /\ call.res.status = 404
  /\ result.fn = "request"
  /\ result.out.threw
  /\ result.out.errStatus = 404

\* the sequence needle occurs in the sequence hay
Contains(hay, needle) ==
  \E k \in 0..(Len(hay) - Len(needle)) : SubSeq(hay, k + 1, k + Len(needle)) = needle

\* the credential values the inputs carry
CredentialValues ==
  UNION {{inp.accessKeyId.chars, inp.secretAccessKey.chars, inp.sessionToken.chars} :
           inp \in CredentialInputs} \ {<<>>}

(***************************************************************************)
(* C20.  A submit of the page with credentials leaves the log and the      *)
(* status that the same submit with any other credentials (access key id,  *)
(* secret access key, session token given or not) would leave in the same  *)
(* state, and no entry that a step adds to the log contains a credential   *)
(* value.                                                                  *)
(***************************************************************************)
C20_CredentialsNotLogged ==
  [][/\ \A inp \in CredentialInputs :
          (started' # started /\ PageStart(inp))
            => \A other \in CredentialInputs :
                 /\ log' = StartLog(other, log, UniqueId(idsDrawn'))
                 /\ status' = StartStatus(other, status)
     /\ \A i \in (Len(log) + 1)..Len(log') :
          \A c \in CredentialValues : ~Contains(log'[i].arg, c)]_vars

\* a run with other credentials and a session token has found the asset on its
\* first probe: the log is the one the run has with any credentials
C20_RunWithOtherCredentials ==
  /\ runs[1].pc = "get"
  /\ runs[1].client.accessKeyId = <<"A", "L">>
  /\ runs[1].client.secretAccessKey = <<"S", "L">>
  /\ runs[1].client.sessionToken = Str(<<"T", "L">>)
  /\ status = "downloading"
  /\ log = <<toLogEntry(MsgPreparing, 0, <<"c", "#">>),
             toLogEntry(MsgUploading, 0,
                        <<"a", "/", "i", "/", "i", "d", "1", "-", "c", "_">>),
             toLogEntry(MsgUploadComplete, 0, <<>>),
             toLogEntry(MsgChecking, 1, <<>>),
             toLogEntry(MsgFound, 0, <<>>)>>

(***************************************************************************)
(* C24  For every key, encodeS3Key never escapes a literal '/': the output *)
(* has exactly as many '/' as the key, and its segments, in order, are the *)
(* URI-component encodings of the segments of the key.  'a b/c#d' encodes  *)
(* to 'a%20b/c%23d'.                                                       *)
(***************************************************************************)
\* the positions of the separators of a path
Slashes(cs) == {i \in 1..Len(cs) : cs[i] = "/"}

\* the k-th segment of a path: what lies between its (k-1)-th and k-th separator
Segment(cs, k) ==
  LET before == {i \in Slashes(cs) : Cardinality({j \in Slashes(cs) : j <= i}) = k - 1}
      after == {i \in Slashes(cs) : Cardinality({j \in Slashes(cs) : j <= i}) = k}
      from == IF before = {} THEN 1 ELSE (CHOOSE i \in before : TRUE) + 1
      to == IF after = {} THEN Len(cs) ELSE (CHOOSE i \in after : TRUE) - 1
  IN SubSeq(cs, from, to)

C24_SlashesKeptSegmentsEncoded ==
  result # NoCall /\ result.fn = "encode" =>
    /\ Cardinality(Slashes(result.encoded)) = Cardinality(Slashes(call.key))
    /\ \A k \in 1..(Cardinality(Slashes(call.key)) + 1) :
         Segment(result.encoded, k) = encodeURIComponent(Segment(call.key, k))
    /\ call.key = ExampleKey =>
         result.encoded = <<"a", "%", "2", "0", "b", "/", "c", "%", "2", "3", "d">>

\* a key with a literal %2F in a segment, between two separators, was encoded
C24_EncodedKeyWithEscapeLookalike ==
  /\ result # NoCall /\ result.fn = "encode"
  /\ call.key = <<"/", "%", "2", "F">>

(***************************************************************************)
(* Vocabulary of the signer's properties.                                  *)
(***************************************************************************)
\* two readings of the clock in the same second
SameSecond(a, b) == a.day = b.day /\ a.ms \div 1000 = b.ms \div 1000

\* what a signed request is made of
Signed(s) == <<s.url, s.headers, AuthorizationOf(s), s.body>>

(***************************************************************************)
(* C21  Signing a request twice at the same timestamp gives the same url,  *)
(* headers and Authorization, and signing it at two different timestamps   *)
(* gives two different Authorization values.                               *)
(***************************************************************************)
\* C21 as claimed: the timestamp is the reading of the clock
C21_FreshAtEveryInstant ==
  result # NoCall /\ result.fn = "sign" =>
    /\ call.now = call.later => Signed(result.first) = Signed(result.second)
    /\ call.now # call.later =>
         AuthorizationOf(result.first) # AuthorizationOf(result.second)

\* C21 amended: the timestamp is written to the second, so two readings of
\* the clock in the same second give the same signed request, and two
\* readings in different seconds give different Authorization values
C21_FreshAtEverySecond ==
  result # NoCall /\ result.fn = "sign" =>
    /\ SameSecond(call.now, call.later) =>
         Signed(result.first) = Signed(result.second)
    /\ ~SameSecond(call.now, call.later) =>
         AuthorizationOf(result.first) # AuthorizationOf(result.second)

\* a putObject with a token was signed on 11 January and on 1 November, at
\* the same time of the day
C21_SignedOnTwoDays ==
  /\ result # NoCall /\ result.fn = "sign"
  /\ call.op = "put" /\ Truthy(call.client.sessionToken)
  /\ call.now.day # call.later.day /\ call.now.ms = call.later.ms

(***************************************************************************)
(* C22  The canonical header block does not depend on the order in which   *)
(* the headers are supplied: buildCanonicalHeaders gives the same string   *)
(* for a header mapping and for every permutation of its entries.          *)
(***************************************************************************)
C22_CanonicalHeadersOrderInvariant ==
  result # NoCall /\ result.fn = "canon" => result.block = result.permutedBlock

(***************************************************************************)
(* C23  In every signed request the canonical header block and the         *)
(* signed-header list hold the lower-cased header names in the order of    *)
(* their bytes, so that the i-th line of the block is for the i-th name of *)
(* the list.                                                               *)
(***************************************************************************)
\* the name of a line of the canonical header block: what precedes its colon
LineName(line) ==
  SubSeq(line, 1, (CHOOSE i \in 1..Len(line) :
                     line[i] = ":" /\ \A j \in 1..(i - 1) : line[j] # ":") - 1)

InByteOrder(names) ==
  \A i, j \in 1..Len(names) : i < j => CodeUnitCompare(names[i], names[j]) < 0

C23_HeaderListsInByteOrder ==
  result # NoCall /\ result.fn = "sign" =>
    LET lines == Split(result.first.canonicalHeaders, "\n")
        names == Split(result.first.signedHeaders, ";")
    IN /\ Len(lines) = Len(names)
       /\ \A i \in 1..Len(names) :
            LineName(lines[i]) = names[i] /\ names[i] = toLowerCase(names[i])
       /\ InByteOrder(names)
       /\ InByteOrder([i \in 1..Len(lines) |-> LineName(lines[i])])

(***************************************************************************)
(* C25  Once a run has set the status to downloading, its next status      *)
(* change is to complete or to error: every failure of the GET or of the   *)
(* read of its body, whatever its status code, sets the status to error,   *)
(* and the run issues no further HEAD.                                     *)
(***************************************************************************)
C25_ReadFailureIsError ==
  [][\A r \in RunIds :
       /\ (runs[r].pc = "get" /\ Continued(r)) =>
            /\ \/ runs'[r].pc = "body" /\ status' = status
               \/ runs'[r].pc = "done" /\ status' = "error"
            /\ (\E res \in GetResults : getObject(res).threw /\ GetDone(r, res))
                 => status' = "error"
       /\ (runs[r].pc = "body" /\ Continued(r)) =>
            runs'[r].pc = "done" /\ status' = "complete"
       /\ (runs'[r].pc = "head" /\ runs[r].pc # "head") => runs[r].gets = 0]_vars

(***************************************************************************)
(* C27  Whenever the status of the mounted hook is complete, a result      *)
(* handle is set, it has not been released, and a result content type is   *)
(* set.                                                                    *)
(***************************************************************************)
C27_CompleteHasResult ==
  (mounted /\ status = "complete") =>
    /\ resultUrl # NoUrl
    /\ resultUrl \in liveUrls
    /\ resultContentType # ""

\* the second of two runs has completed, with answers that declare no
\* content type, and the first has returned
C27_SecondResultWithoutDeclaredType ==
  /\ mounted
  /\ status = "complete"
  /\ resultUrl = 2
  /\ resultContentType = "image/jpeg"
  /\ \A r \in RunIds : runs[r].pc = "done"

(***************************************************************************)
(* C26  Every run terminates: when every call is answered and every timer  *)
(* fires, a run that start() has begun returns, with the status complete,  *)
(* error or idle, after at most one PUT, MAX_POLLS HEAD probes and no more *)
(* GETs than probes.                                                       *)
(***************************************************************************)
C26_EveryRunTerminates ==
  /\ \A r \in RunIds : Suspended(r) ~> (runs[r].pc = "done")
  /\ [][\A r \in RunIds :
          /\ (Continued(r) /\ runs'[r].pc = "done") =>
               status' \in {"complete", "error", "idle"}
          /\ (runs'[r].pc = "put" /\ runs[r].pc # "put") => runs[r].pc = "none"]_vars
  /\ [](\A r \in RunIds :
          runs[r].heads <= MAX_POLLS /\ runs[r].gets <= runs[r].heads)

\* the run has returned on a timeout, after a probe that found the asset and
\* a download that did not
C26_TimedOutAfterDownloadRetry ==
  /\ runs[1].pc = "done"
  /\ status = "error"
  /\ Last(log).text = MsgTimedOut
  /\ \E i \in 1..Len(log) : log[i].text = MsgFound

====
